---- MODULE Spec2Model ----
(***************************************************************************)
(* Model of the MEI debit scraper: the job dispatcher (src/server.js,      *)
(* express handlers, in-memory cache, subprocess with timeout), and the    *)
(* year iteration of the three extraction engines (src/unnamed/part_000    *)
(* = scrape.js, src/scrape_playwright.js, and the bounded-parallel         *)
(* playwright engine in the second half of src/server.js).                 *)
(*                                                                         *)
(* JavaScript strings are sequences of one-character strings.  Time is     *)
(* counted in minutes (Date.now() / 60000); the clock of the dispatcher    *)
(* is read at the multiples of the subprocess timeout.                     *)
(***************************************************************************)
EXTENDS Integers, Sequences, FiniteSets, TLC

\* ------------------------------------------------------------------ bounds
MaxReqs == 2    \* requests received in one behaviour of Spec
MaxTicks == 1   \* times the clock of Spec and FairSpec advances
MaxFairReqs == 1  \* requests received in one behaviour of FairSpec
MaxOps  == 3    \* cache calls in one behaviour of CacheSpec
MaxYears == 3   \* eligible years of one engine run
MaxRecs == 3    \* records one extraction returns
MaxTries == 3   \* `tries` of safeExtractDebits
MaxLen == 3     \* characters of a raw identifier given to a normalization function
MaxOpts == 3    \* options of the year menu of a page
MaxRows == 3    \* table rows of a page of debits
MaxCols == 2    \* columns of the table given to the header mapping
MaxElems == 2   \* elements of the page at the consult step
MaxNodes == 3   \* nodes of the page given to findCNPJInput
MaxFinds == 2   \* resolutions of the field on one page

\* ------------------------------------------------------- program constants
CACHE_TTL    == 10    \* server.js:18  1000 * 60 * 10 ms, in minutes
CACHE_MAX    == 200   \* server.js:19
MIN_DIGITS   == 11    \* server.js:56  cnpjRaw.length < 11
KILL_TIMEOUT == 3     \* server.js:79  1000 * 60 * 3 ms, in minutes

\* --------------------------------------------------------- JavaScript values
Undefined == <<"undefined">>
Null      == <<"null">>
Digits    == {"0", "1", "2", "3", "4", "5", "6", "7", "8", "9"}

\* `x || ''`
OrEmpty(x) == IF x = Undefined \/ x = Null \/ x = <<>> THEN <<>> ELSE x

\* String(s).replace(/[^0-9]/g, '')
RECURSIVE StripNonDigits(_)
StripNonDigits(s) ==
  IF s = <<>> THEN <<>>
  ELSE IF Head(s) \in Digits THEN <<Head(s)>> \o StripNonDigits(Tail(s))
       ELSE StripNonDigits(Tail(s))

sanitizeCNPJ_NoStrip(cnpj) ==
  IF cnpj = Undefined \/ cnpj = Null \/ cnpj = <<>> THEN Null ELSE cnpj

sanitizeCNPJ(cnpj) ==
  IF cnpj = Undefined \/ cnpj = Null \/ cnpj = <<>> THEN Null
  ELSE StripNonDigits(cnpj)

makeKey(cnpj, year, month) == <<OrEmpty(cnpj), OrEmpty(year), OrEmpty(month)>>

\* ------------------------------------------------------------ request inputs
IdA == <<"1","2",".","3","4","5",".","6","7","8","/","0","0","0","1","-","9","5">>
IdB == <<"0","0","0","0","0","0","0","0","1","9","1">>
IdShort == <<"1","2","3",".","4","5","6",".","7","8","9","-","0","x">>
RawIds == {IdA, IdB, IdShort, Undefined}
YearInputs == {Undefined}
MonthInputs == {Undefined}

\* ------------------------------------------------------------------- cache
\* The Map `cache` is the sequence of its entries in insertion order.
NoAgg == [cnpj |-> Null, run |-> 0]

KeyIndex(c, key) ==
  IF \E i \in 1..Len(c) : c[i].key = key
  THEN CHOOSE i \in 1..Len(c) : c[i].key = key
  ELSE 0

\* Map.prototype.delete
MapDelete(c, key) ==
  LET i == KeyIndex(c, key)
  IN IF i = 0 THEN c ELSE SubSeq(c, 1, i - 1) \o SubSeq(c, i + 1, Len(c))

\* Map.prototype.set: an existing key keeps its position
MapSet(c, key, ts, value) ==
  LET i == KeyIndex(c, key)
      e == [key |-> key, ts |-> ts, value |-> value]
  IN IF i = 0 THEN Append(c, e) ELSE [c EXCEPT ![i] = e]

\* the expiry test inverted
getFromCache_Inverted(c, key, t) ==
  LET i == KeyIndex(c, key)
  IN IF i = 0 THEN [cache |-> c, hit |-> FALSE, value |-> NoAgg]
     ELSE IF t - c[i].ts < CACHE_TTL
          THEN [cache |-> MapDelete(c, key), hit |-> FALSE, value |-> NoAgg]
          ELSE [cache |-> MapSet(MapDelete(c, key), key, c[i].ts, c[i].value),
                hit |-> TRUE, value |-> c[i].value]

\* the expiry test left out
getFromCache_NoExpiry(c, key, t) ==
  LET i == KeyIndex(c, key)
  IN IF i = 0 THEN [cache |-> c, hit |-> FALSE, value |-> NoAgg]
     ELSE [cache |-> MapSet(MapDelete(c, key), key, c[i].ts, c[i].value),
           hit |-> TRUE, value |-> c[i].value]

\* a hit that also refreshes the timestamp
getFromCache_Refresh(c, key, t) ==
  LET i == KeyIndex(c, key)
  IN IF i = 0 THEN [cache |-> c, hit |-> FALSE, value |-> NoAgg]
     ELSE IF t - c[i].ts > CACHE_TTL
          THEN [cache |-> MapDelete(c, key), hit |-> FALSE, value |-> NoAgg]
          ELSE [cache |-> MapSet(MapDelete(c, key), key, t, c[i].value),
                hit |-> TRUE, value |-> c[i].value]

getFromCache(c, key, t) ==
  LET i == KeyIndex(c, key)
  IN IF i = 0 THEN [cache |-> c, hit |-> FALSE, value |-> NoAgg]
     ELSE IF t - c[i].ts > CACHE_TTL
          THEN [cache |-> MapDelete(c, key), hit |-> FALSE, value |-> NoAgg]
          ELSE [cache |-> MapSet(MapDelete(c, key), key, c[i].ts, c[i].value),
                hit |-> TRUE, value |-> c[i].value]

\* the capacity test off by one
setToCache_OffByOne(c, key, value, t) ==
  LET c1 == IF Len(c) > CACHE_MAX THEN MapDelete(c, c[1].key) ELSE c
  IN MapSet(c1, key, t, value)

setToCache(c, key, value, t) ==
  LET c1 == IF Len(c) >= CACHE_MAX THEN MapDelete(c, c[1].key) ELSE c
  IN MapSet(c1, key, t, value)

\* ---------------------------------------------------------------- variables
VARIABLES
  now,      \* Date.now(), minutes
  cache,    \* server.js cache Map
  file,     \* debitos_all.json shared by the server and every engine run
  reqs,     \* per request: position of the handler and its locals
  timer,    \* per request: the setTimeout of the handler
  child,    \* per request: the spawned subprocess
  resp,     \* per request: responses sent on `res`, in order
  nextRun,  \* number of subprocesses spawned so far + 1
  lastOp,   \* the last cache call, its caller and what it returned
  ops,      \* number of cache calls made (CacheSpec)
  engine,   \* which engine script the run executes
  digits,   \* engine: the normalized identifier of the run
  YEAR,     \* engine: argv.year || new Date().getFullYear()
  years,    \* engine: what getAvailableYears returned
  epc,      \* engine: position of the run
  all,      \* engine: `all`
  debitos,  \* scrape.js: `debitos`
  idx,      \* parallelMap: `idx`
  ret,      \* parallelMap: `ret`
  workers,  \* parallelMap: the element each worker is awaiting
  found,    \* what safeExtractDebits returned for each position of `years`
  companyName,  \* engine: `companyName`
  yearFiles,    \* debitos_<year>.json, by year label
  outAll,   \* debitos_all.json in the working directory of the engine
  limit,    \* parallelMap: `limit`
  calls,    \* parallelMap: how many times fn was called for each element
  input,    \* the arguments of a function called on its own
  output,   \* what that call returned
  CNPJ,     \* engine: argv.cnpj || argv._[0] || ''
  hcaptcha, \* the hCaptcha interstitial of the entry page
  elapsed,  \* engine: Date.now() - start in the CAPTCHA poll, milliseconds
  cnpjEl,   \* engine: what findCNPJInput returned
  steps,    \* engine: what main did on the first page, in order
  ysteps,   \* engine: what was done for each position of `years`, in order
  printed,  \* engine: the messages of console.error before an exit
  exitCode  \* engine: the exit status of the process

engineVars == <<engine, digits, YEAR, years, epc, all, debitos, idx, ret, workers,
                found, companyName, yearFiles, outAll, limit, calls>>

fnVars == <<input, output>>

navVars == <<CNPJ, hcaptcha, elapsed, cnpjEl, steps, ysteps, printed, exitCode>>

vars == <<now, cache, file, reqs, timer, child, resp, nextRun, lastOp, ops, engineVars,
          fnVars, navVars>>

Reqs == 1..MaxReqs

NoKey == <<<<>>, <<>>, <<>>>>
IdleReq == [pc |-> "idle", cnpj |-> Undefined, year |-> Undefined,
            month |-> Undefined, key |-> NoKey, run |-> 0, at |-> 0]
NoTimer == [st |-> "none", deadline |-> 0]
NoChild == [st |-> "none", cnpj |-> Null, wrote |-> FALSE, code |-> 0,
            sig |-> FALSE, exitSeen |-> FALSE, errSeen |-> FALSE]
NoFile == [st |-> "absent", agg |-> NoAgg]
\* op: the call; hit, value: what it returned; pos, len: where the key was and
\* how many entries the Map had when the call was made
NoOp == [op |-> "none", key |-> NoKey, hit |-> FALSE, value |-> NoAgg,
         pos |-> 0, len |-> 0]

\* exit code reported when the subprocess was ended by a signal (code === null)
CodeNull == -1

Response(status, success, cached, hasResult, result) ==
  [status |-> status, success |-> success, cached |-> cached,
   hasResult |-> hasResult, result |-> result]

\* ------------------------------------------------------------ engine values
PARALLEL_LIMIT == 3   \* server.js:503  parallelMap(years, 3, ...)
Engines == {"puppeteer", "sequential", "parallel"}
YearLabels == {"2023", "2024"}
YearLists == UNION {[1..k -> YearLabels] : k \in 0..MaxYears}
Names == {"ACME MEI"}
NoName == "null"

\* String(raw).replace(/\D/g, '')
normalizeCNPJ(raw) == StripNonDigits(raw)

\* the DebitRecords extractDebits returns for a page of year y with n rows
Rows(y, n) == [k \in 1..n |-> [year |-> y, row |-> k]]
\* safeExtractDebits returns 0..MaxRecs records or throws
Throws == MaxRecs + 1
Outcomes == 0..Throws

YearResult(y, items) == [year |-> y, items |-> items]
YearFile(cnpj, name, y, items) ==
  [cnpj |-> cnpj, companyName |-> name, year |-> y, items |-> items]
Aggregate(cnpj, name, ys) == [cnpj |-> cnpj, companyName |-> name, years |-> ys]

\* no engine run is modelled
EngineOff ==
  /\ engine = "puppeteer"
  /\ digits = <<>>
  /\ YEAR = "2024"
  /\ years = <<>>
  /\ epc = "off"
  /\ all = <<>>
  /\ debitos = <<>>
  /\ idx = 0
  /\ ret = <<>>
  /\ workers = <<>>
  /\ found = <<>>
  /\ companyName = NoName
  /\ yearFiles = <<>>
  /\ outAll = <<>>
  /\ limit = PARALLEL_LIMIT
  /\ calls = <<>>

\* no function is called on its own
FnOff ==
  /\ input = <<>>
  /\ output = <<>>

\* the navigation of no run is modelled
NavOff ==
  /\ CNPJ = <<>>
  /\ hcaptcha = "absent"
  /\ elapsed = 0
  /\ cnpjEl = "unset"
  /\ steps = <<>>
  /\ ysteps = <<>>
  /\ printed = <<>>
  /\ exitCode = CodeNull

Init ==
  /\ now = 0
  /\ cache = <<>>
  /\ file = NoFile
  /\ reqs = [r \in Reqs |-> IdleReq]
  /\ timer = [r \in Reqs |-> NoTimer]
  /\ child = [r \in Reqs |-> NoChild]
  /\ resp = [r \in Reqs |-> <<>>]
  /\ nextRun = 1
  /\ lastOp = NoOp
  /\ ops = 0
  /\ EngineOff
  /\ FnOff
  /\ NavOff

\* ------------------------------------------------------------- dispatcher
\* app.post('/scrape') / app.get('/scrape') up to the first await: validation,
\* cache lookup, spawn and timer.
HandleRequest(r, cnpj, year, month, spawnOk) ==
  LET cnpjRaw == sanitizeCNPJ(OrEmpty(cnpj))
      key == makeKey(cnpjRaw, year, month)
      got == getFromCache(cache, key, now)
  IN
  /\ reqs[r].pc = "idle"
  /\ \A q \in Reqs : q < r => reqs[q].pc # "idle"   \* requests are numbered in arrival order
  /\ IF cnpjRaw = Null \/ Len(cnpjRaw) < MIN_DIGITS
     THEN /\ resp' = [resp EXCEPT ![r] = Append(@, Response(400, "absent", FALSE, FALSE, NoAgg))]
          /\ reqs' = [reqs EXCEPT ![r] = [IdleReq EXCEPT !.pc = "done", !.cnpj = cnpj,
                                          !.year = year, !.month = month]]
          /\ UNCHANGED <<cache, timer, child, nextRun>>
     ELSE /\ cache' = got.cache
          /\ IF got.hit
             THEN /\ resp' = [resp EXCEPT ![r] = Append(@, Response(200, "absent", TRUE, TRUE, got.value))]
                  /\ reqs' = [reqs EXCEPT ![r] = [pc |-> "done", cnpj |-> cnpj, year |-> year,
                                                  month |-> month, key |-> key, run |-> 0, at |-> now]]
                  /\ UNCHANGED <<timer, child, nextRun>>
             ELSE /\ reqs' = [reqs EXCEPT ![r] = [pc |-> "spawned", cnpj |-> cnpj, year |-> year,
                                                  month |-> month, key |-> key, run |-> nextRun, at |-> now]]
                  /\ nextRun' = nextRun + 1
                  /\ timer' = [timer EXCEPT ![r] = [st |-> "armed", deadline |-> now + KILL_TIMEOUT]]
                  /\ child' = [child EXCEPT ![r] = [NoChild EXCEPT
                                  !.st = IF spawnOk THEN "run" ELSE "failed",
                                  !.cnpj = cnpjRaw]]
                  /\ UNCHANGED resp
  /\ UNCHANGED <<now, file, lastOp, ops, engineVars, fnVars, navVars>>

\* ---- the engine subprocess, as far as the dispatcher can observe it ----
Alive(r) == child[r].st \in {"run", "writing"}

\* fs.writeFileSync('debitos_all.json', ...) opens the file with truncation ...
ChildWriteBegin(r) ==
  /\ child[r].st = "run"
  /\ ~child[r].wrote
  /\ child' = [child EXCEPT ![r].st = "writing"]
  /\ file' = [st |-> "partial", agg |-> NoAgg]
  /\ UNCHANGED <<now, cache, reqs, timer, resp, nextRun, lastOp, ops, engineVars, fnVars, navVars>>

\* ... and then writes { cnpj: digits, companyName, years }
ChildWriteEnd(r) ==
  /\ child[r].st = "writing"
  /\ child' = [child EXCEPT ![r].st = "run", ![r].wrote = TRUE]
  /\ file' = [st |-> "full", agg |-> [cnpj |-> child[r].cnpj, run |-> reqs[r].run]]
  /\ UNCHANGED <<now, cache, reqs, timer, resp, nextRun, lastOp, ops, engineVars, fnVars, navVars>>

\* the engine returns from main (code 0) or dies on process.exit(1) or an
\* unhandled rejection (code 1)
ChildExit(r, code) ==
  /\ child[r].st = "run"
  /\ child' = [child EXCEPT ![r].st = "exited", ![r].code = code]
  /\ UNCHANGED <<now, cache, file, reqs, timer, resp, nextRun, lastOp, ops, engineVars, fnVars, navVars>>

\* "The 'exit' event may or may not fire after an error has occurred": the
\* subprocess whose 'error' was handled emits 'exit' as well
ChildExitAfterError(r) ==
  /\ child[r].st = "failed"
  /\ child[r].errSeen
  /\ child' = [child EXCEPT ![r].st = "exited", ![r].code = CodeNull]
  /\ UNCHANGED <<now, cache, file, reqs, timer, resp, nextRun, lastOp, ops, engineVars, fnVars, navVars>>

\* SIGTERM ends the subprocess wherever it is: code is null
ChildKilled(r) ==
  /\ Alive(r)
  /\ child[r].sig
  /\ child' = [child EXCEPT ![r].st = "exited", ![r].code = CodeNull]
  /\ UNCHANGED <<now, cache, file, reqs, timer, resp, nextRun, lastOp, ops, engineVars, fnVars, navVars>>

\* setTimeout(() => { try { child.kill('SIGTERM') } catch (e) {} }, 3 min)
TimerFire(r) ==
  /\ timer[r].st = "armed"
  /\ now >= timer[r].deadline
  /\ timer' = [timer EXCEPT ![r].st = "fired"]
  /\ child' = [child EXCEPT ![r].sig = IF Alive(r) THEN TRUE ELSE @]
  /\ UNCHANGED <<now, cache, file, reqs, resp, nextRun, lastOp, ops, engineVars, fnVars, navVars>>

clearTimeout_Noop(t) == t

clearTimeout(t) == IF t.st = "armed" THEN [t EXCEPT !.st = "cleared"] ELSE t

\* child.on('exit') up to `await fs.promises.readFile`; neither listener
\* tests whether the other one answered: res.json on a response that was sent
\* throws ERR_HTTP_HEADERS_SENT, in the try block and again in its catch block
HandleExit(r) ==
  /\ reqs[r].pc \in {"spawned", "done"}
  /\ child[r].st = "exited"
  /\ ~child[r].exitSeen
  /\ child' = [child EXCEPT ![r].exitSeen = TRUE]
  /\ timer' = [timer EXCEPT ![r] = clearTimeout(@)]
  /\ IF file.st # "absent"
     THEN /\ reqs' = [reqs EXCEPT ![r].pc = "reading"]
          /\ UNCHANGED resp
     ELSE IF resp[r] = <<>>
     THEN /\ reqs' = [reqs EXCEPT ![r].pc = "done"]
          /\ resp' = [resp EXCEPT ![r] = Append(@,
                        Response(200, IF child[r].code = 0 THEN "true" ELSE "false",
                                 FALSE, FALSE, NoAgg))]
     ELSE /\ reqs' = [reqs EXCEPT ![r].pc = "threw"]
          /\ UNCHANGED resp
  /\ UNCHANGED <<now, cache, file, nextRun, lastOp, ops, engineVars, fnVars, navVars>>

\* child.on('exit') after the read: JSON.parse, setToCache, res.json
ReadDone(r) ==
  /\ reqs[r].pc = "reading"
  /\ cache' = IF file.st = "full" THEN setToCache(cache, reqs[r].key, file.agg, now)
              ELSE cache
  /\ IF resp[r] # <<>>
     THEN /\ reqs' = [reqs EXCEPT ![r].pc = "threw"]
          /\ UNCHANGED resp
     ELSE /\ reqs' = [reqs EXCEPT ![r].pc = "done"]
          /\ resp' = [resp EXCEPT ![r] = Append(@,
                        IF file.st = "full"
                        THEN Response(200, "true", FALSE, TRUE, file.agg)
                        ELSE Response(200, "false", FALSE, FALSE, NoAgg))]
  /\ UNCHANGED <<now, file, timer, child, nextRun, lastOp, ops, engineVars, fnVars, navVars>>

\* child.on('error'): the subprocess could not be started
HandleError(r) ==
  /\ reqs[r].pc = "spawned"
  /\ child[r].st = "failed"
  /\ ~child[r].errSeen
  /\ child' = [child EXCEPT ![r].errSeen = TRUE]
  /\ timer' = [timer EXCEPT ![r] = clearTimeout(@)]
  /\ reqs' = [reqs EXCEPT ![r].pc = "done"]
  /\ resp' = [resp EXCEPT ![r] = Append(@, Response(500, "absent", FALSE, FALSE, NoAgg))]
  /\ UNCHANGED <<now, cache, file, nextRun, lastOp, ops, engineVars, fnVars, navVars>>

Tick ==
  /\ now < MaxTicks * KILL_TIMEOUT
  /\ now' = now + KILL_TIMEOUT
  /\ UNCHANGED <<cache, file, reqs, timer, child, resp, nextRun, lastOp, ops, engineVars, fnVars, navVars>>

\* the steps of the server and of the subprocesses of the requests in R
NextOf(R) ==
  \/ \E r \in R, cnpj \in RawIds, year \in YearInputs, month \in MonthInputs,
        spawnOk \in BOOLEAN : HandleRequest(r, cnpj, year, month, spawnOk)
  \/ \E r \in R : ChildWriteBegin(r)
  \/ \E r \in R : ChildWriteEnd(r)
  \/ \E r \in R, code \in {0, 1} : ChildExit(r, code)
  \/ \E r \in R : ChildExitAfterError(r)
  \/ \E r \in R : ChildKilled(r)
  \/ \E r \in R : TimerFire(r)
  \/ \E r \in R : HandleExit(r)
  \/ \E r \in R : ReadDone(r)
  \/ \E r \in R : HandleError(r)
  \/ Tick

Next == NextOf(Reqs)

Spec == Init /\ [][Next]_vars

\* The event loop of the server runs every callback that is due: the timer
\* callback, the 'exit' and 'error' listeners, the continuation of the read.
FairReqs == 1..MaxFairReqs
FairNext == NextOf(FairReqs)

Fairness ==
  \A r \in FairReqs : /\ WF_vars(TimerFire(r))
                      /\ WF_vars(HandleExit(r))
                      /\ WF_vars(ReadDone(r))
                      /\ WF_vars(HandleError(r))

FairSpec == Init /\ [][FairNext]_vars /\ Fairness

\* ------------------------------------------- the cache functions on their own
\* CacheSpec calls getFromCache and setToCache directly, from an empty Map or
\* from a Map that CACHE_MAX - 1 earlier stores (all within minute 0) filled.
DigitSeq == <<"0", "1", "2", "3", "4", "5", "6", "7", "8", "9">>
\* the identifier 77777777ddd, ddd the decimal digits of i
FillerId(i) == <<"7", "7", "7", "7", "7", "7", "7", "7",
                 DigitSeq[((i \div 100) % 10) + 1], DigitSeq[((i \div 10) % 10) + 1],
                 DigitSeq[(i % 10) + 1]>>
FillerKey(i) == makeKey(sanitizeCNPJ(FillerId(i)), Undefined, Undefined)
Filled(n) == [i \in 1..n |-> [key |-> FillerKey(i), ts |-> 0,
                               value |-> [cnpj |-> FillerId(i), run |-> 0]]]

KeyA == makeKey(sanitizeCNPJ(IdA), Undefined, Undefined)
KeyB == makeKey(sanitizeCNPJ(IdB), Undefined, Undefined)
CacheKeys == {FillerKey(1), KeyA, KeyB}
CacheValues(key) == {[cnpj |-> key[1], run |-> n] : n \in 1..2}
\* the clock of CacheSpec jumps to the minutes around the expiry of an entry
TickSteps == {CACHE_TTL, CACHE_TTL + 1}
LastCacheMinute == CACHE_TTL + 1

CacheInit ==
  /\ now = 0
  /\ cache \in {<<>>, Filled(CACHE_MAX - 1)}
  /\ file = NoFile
  /\ reqs = [r \in Reqs |-> IdleReq]
  /\ timer = [r \in Reqs |-> NoTimer]
  /\ child = [r \in Reqs |-> NoChild]
  /\ resp = [r \in Reqs |-> <<>>]
  /\ nextRun = 1
  /\ lastOp = NoOp
  /\ ops = 0
  /\ EngineOff
  /\ FnOff
  /\ NavOff

CacheGet(key) ==
  LET got == getFromCache(cache, key, now)
  IN /\ ops < MaxOps
     /\ ops' = ops + 1
     /\ cache' = got.cache
     /\ lastOp' = [op |-> "get", key |-> key, hit |-> got.hit, value |-> got.value,
                   pos |-> KeyIndex(cache, key), len |-> Len(cache)]
     /\ UNCHANGED <<now, file, reqs, timer, child, resp, nextRun, engineVars, fnVars, navVars>>

CacheSet(key, value) ==
  /\ ops < MaxOps
  /\ ops' = ops + 1
  /\ cache' = setToCache(cache, key, value, now)
  /\ lastOp' = [op |-> "set", key |-> key, hit |-> FALSE, value |-> value,
                pos |-> KeyIndex(cache, key), len |-> Len(cache)]
  /\ UNCHANGED <<now, file, reqs, timer, child, resp, nextRun, engineVars, fnVars, navVars>>

CacheTick(d) ==
  /\ now + d <= LastCacheMinute
  /\ now' = now + d
  /\ UNCHANGED <<cache, file, reqs, timer, child, resp, nextRun, lastOp, ops, engineVars, fnVars, navVars>>

CacheNext ==
  \/ \E key \in CacheKeys : CacheGet(key)
  \/ \E key \in CacheKeys : \E value \in CacheValues(key) : CacheSet(key, value)
  \/ \E d \in TickSteps : CacheTick(d)

CacheSpec == CacheInit /\ [][CacheNext]_vars

\* ------------------------------------------------------------ engine runs
\* One run of an engine script from the return of getAvailableYears to the
\* end of main, in a working directory that may hold the combined file of an
\* earlier run.
dispVars == <<now, cache, file, reqs, timer, child, resp, nextRun, lastOp, ops>>

Min(a, b) == IF a <= b THEN a ELSE b

EngineInit ==
  /\ now = 0
  /\ cache = <<>>
  /\ file = NoFile
  /\ reqs = [r \in Reqs |-> IdleReq]
  /\ timer = [r \in Reqs |-> NoTimer]
  /\ child = [r \in Reqs |-> NoChild]
  /\ resp = [r \in Reqs |-> <<>>]
  /\ nextRun = 1
  /\ lastOp = NoOp
  /\ ops = 0
  /\ engine \in Engines
  /\ digits = normalizeCNPJ(IdA)
  /\ YEAR \in YearLabels
  /\ years \in YearLists
  /\ epc = "years"
  /\ all = <<>>
  /\ debitos = <<>>
  /\ idx = 0
  /\ ret = <<>>
  /\ workers = <<>>
  /\ found = <<>>
  /\ companyName \in {NoName} \cup Names
  /\ yearFiles = <<>>
  /\ outAll \in {<<>>, <<Aggregate(normalizeCNPJ(IdB), NoName, <<>>)>>}
  /\ limit = PARALLEL_LIMIT
  /\ calls = [i \in 1..Len(years) |-> 0]
  /\ FnOff
  /\ NavOff

\* fs.writeFileSync(`debitos_${yearLabel}.json`, ...) under `if (found && found.length)`
WriteYearFile(files, y, items) ==
  IF Len(items) > 0 THEN (y :> YearFile(digits, companyName, y, items)) @@ files
  ELSE files

\* one iteration of `for (const y of years)` in scrape.js and of
\* `for (const yearObj of years)` in scrapeAllYearsSequential
ScrapeYear(out) ==
  LET i == idx + 1
      y == years[i]
      items == Rows(y, out)
  IN
  /\ engine \in {"puppeteer", "sequential"}
  /\ epc = "years"
  /\ idx < Len(years)
  /\ IF out = Throws
     THEN \* scrape.js catches at the end of the try block; scrapeAllYearsSequential
          \* lets the error reject main
          /\ epc' = IF engine = "puppeteer" THEN "name" ELSE "crashed"
          /\ debitos' = <<>>
          /\ UNCHANGED <<idx, found, yearFiles, all>>
     ELSE /\ idx' = i
          /\ found' = (i :> items) @@ found
          /\ yearFiles' = WriteYearFile(yearFiles, y, items)
          /\ all' = IF engine = "sequential" \/ Len(items) > 0
                    THEN Append(all, YearResult(y, items))
                    ELSE all
          /\ UNCHANGED <<epc, debitos>>
  /\ UNCHANGED <<limit, calls, engine, digits, YEAR, years, ret, workers, companyName, outAll>>
  /\ UNCHANGED <<dispVars, fnVars, navVars>>

\* after the loop: fs.writeFileSync('debitos_all.json', ...)
WriteAggregate ==
  /\ engine \in {"puppeteer", "sequential"}
  /\ epc = "years"
  /\ Len(years) > 0
  /\ idx = Len(years)
  /\ outAll' = <<Aggregate(digits, companyName, all)>>
  /\ debitos' = IF engine = "puppeteer" THEN all ELSE debitos
  /\ epc' = "name"
  /\ UNCHANGED <<limit, calls, engine, digits, YEAR, years, all, idx, ret, workers, found,
                 companyName, yearFiles>>
  /\ UNCHANGED <<dispVars, fnVars, navVars>>

\* the branch taken when getAvailableYears returned no year
ExtractDefault(out) ==
  /\ epc = "years"
  /\ Len(years) = 0
  /\ IF engine = "puppeteer"
     THEN /\ debitos' = IF out = Throws THEN <<>> ELSE Rows(YEAR, out)
          /\ epc' = "name"
          /\ UNCHANGED outAll
     ELSE IF out = Throws
          THEN /\ epc' = "crashed"
               /\ UNCHANGED <<debitos, outAll>>
          ELSE /\ outAll' = <<Aggregate(digits, companyName, Rows(YEAR, out))>>
               /\ epc' = "name"
               /\ UNCHANGED debitos
  /\ UNCHANGED <<limit, calls, engine, digits, YEAR, years, all, idx, ret, workers, found,
                 companyName, yearFiles>>
  /\ UNCHANGED <<dispVars, fnVars, navVars>>

\* parallelMap up to `await Promise.all(workers)`: every worker has claimed
\* an element and is awaiting fn
ParallelStart_AllAtOnce ==
  /\ engine = "parallel"
  /\ epc = "years"
  /\ Len(years) > 0
  /\ workers' = [w \in 1..Len(years) |-> w]
  /\ idx' = Len(years)
  /\ calls' = [i \in 1..Len(years) |-> 1]
  /\ epc' = "map"
  /\ UNCHANGED <<limit, engine, digits, YEAR, years, all, debitos, ret, found,
                 companyName, yearFiles, outAll>>
  /\ UNCHANGED <<dispVars, fnVars, navVars>>

ParallelStart ==
  /\ engine = "parallel"
  /\ epc = "years"
  /\ Len(years) > 0
  /\ workers' = [w \in 1..Min(limit, Len(years)) |-> w]
  /\ idx' = Min(limit, Len(years))
  /\ calls' = [i \in 1..Len(years) |-> IF i <= Min(limit, Len(years)) THEN 1 ELSE 0]
  /\ epc' = "map"
  /\ UNCHANGED <<limit, engine, digits, YEAR, years, all, debitos, ret, found,
                 companyName, yearFiles, outAll>>
  /\ UNCHANGED <<dispVars, fnVars, navVars>>

\* scrapeYearInParallel settles for the element of worker w; next() stores
\* the result and claims the next element
WorkerSettle_NoNext(w, out) ==
  LET i == workers[w]
      y == years[i]
      items == Rows(y, out)
  IN
  /\ epc = "map"
  /\ w \in DOMAIN workers
  /\ i > 0
  /\ IF out = Throws
     THEN /\ epc' = "crashed"
          /\ workers' = [workers EXCEPT ![w] = 0]
          /\ UNCHANGED <<ret, found, yearFiles>>
     ELSE /\ found' = (i :> items) @@ found
          /\ yearFiles' = WriteYearFile(yearFiles, y, items)
          /\ ret' = (i :> YearResult(y, items)) @@ ret
          /\ workers' = [workers EXCEPT ![w] = 0]
          /\ UNCHANGED epc
  /\ UNCHANGED <<limit, idx, calls, engine, digits, YEAR, years, all, debitos,
                 companyName, outAll>>
  /\ UNCHANGED <<dispVars, fnVars, navVars>>

WorkerSettle(w, out) ==
  LET i == workers[w]
      y == years[i]
      items == Rows(y, out)
  IN
  /\ epc = "map"
  /\ w \in DOMAIN workers
  /\ i > 0
  /\ IF out = Throws
     THEN \* the promise of the worker rejects, and with it Promise.all and
          \* main; the other workers are not told
          /\ epc' = "crashed"
          /\ workers' = [workers EXCEPT ![w] = 0]
          /\ UNCHANGED <<idx, ret, found, yearFiles, calls>>
     ELSE /\ found' = (i :> items) @@ found
          /\ yearFiles' = WriteYearFile(yearFiles, y, items)
          /\ ret' = (i :> YearResult(y, items)) @@ ret
          /\ IF idx >= Len(years)
             THEN /\ workers' = [workers EXCEPT ![w] = 0]
                  /\ UNCHANGED <<idx, calls>>
             ELSE /\ workers' = [workers EXCEPT ![w] = idx + 1]
                  /\ idx' = idx + 1
                  /\ calls' = [calls EXCEPT ![idx + 1] = @ + 1]
          /\ UNCHANGED epc
  /\ UNCHANGED <<limit, engine, digits, YEAR, years, all, debitos, companyName, outAll>>
  /\ UNCHANGED <<dispVars, fnVars, navVars>>

\* Promise.all resolved: all = ret, and the combined file is written
ParallelJoin ==
  /\ epc = "map"
  /\ \A w \in DOMAIN workers : workers[w] = 0
  /\ all' = ret
  /\ outAll' = <<Aggregate(digits, companyName, ret)>>
  /\ epc' = "name"
  /\ UNCHANGED <<limit, calls, engine, digits, YEAR, years, debitos, idx, ret, workers, found,
                 companyName, yearFiles>>
  /\ UNCHANGED <<dispVars, fnVars, navVars>>

\* the late name lookup (findNameByLabel / nomeFinal) and the rewrite of the
\* combined file: scrape.js and server.js read the file, replace companyName
\* and write it back; scrape_playwright.js replaces companyName in resultJson,
\* the object it wrote before, and writes it again
LateName_Rebuild(nm) ==
  /\ epc = "name"
  /\ epc' = IF engine = "puppeteer" THEN "final" ELSE "done"
  /\ IF nm = NoName
     THEN UNCHANGED <<companyName, outAll>>
     ELSE /\ companyName' = IF engine = "sequential" THEN companyName ELSE nm
          /\ outAll' = <<Aggregate(digits, nm, all)>>
  /\ UNCHANGED <<limit, calls, engine, digits, YEAR, years, all, debitos, idx, ret, workers,
                 found, yearFiles>>
  /\ UNCHANGED <<dispVars, fnVars, navVars>>

LateName(nm) ==
  /\ epc = "name"
  /\ epc' = IF engine = "puppeteer" THEN "final" ELSE "done"
  /\ IF nm = NoName
     THEN UNCHANGED <<companyName, outAll>>
     ELSE /\ companyName' = IF engine = "sequential" THEN companyName ELSE nm
          /\ outAll' = IF outAll # <<>>
                       THEN <<[outAll[1] EXCEPT !.companyName = nm]>>
                       ELSE outAll
  /\ UNCHANGED <<limit, calls, engine, digits, YEAR, years, all, debitos, idx, ret, workers,
                 found, yearFiles>>
  /\ UNCHANGED <<dispVars, fnVars, navVars>>

\* scrape.js: `if (debitos && debitos.length)` write debitos_${YEAR}.json
FinalWrite ==
  /\ engine = "puppeteer"
  /\ epc = "final"
  /\ yearFiles' = IF Len(debitos) > 0
                  THEN (YEAR :> YearFile(digits, companyName, YEAR, debitos)) @@ yearFiles
                  ELSE yearFiles
  /\ epc' = "done"
  /\ UNCHANGED <<limit, calls, engine, digits, YEAR, years, all, debitos, idx, ret, workers,
                 found, companyName, outAll>>
  /\ UNCHANGED <<dispVars, fnVars, navVars>>

EngineNext ==
  \/ \E out \in Outcomes : ScrapeYear(out)
  \/ WriteAggregate
  \/ \E out \in Outcomes : ExtractDefault(out)
  \/ ParallelStart
  \/ \E w \in 1..PARALLEL_LIMIT, out \in Outcomes : WorkerSettle(w, out)
  \/ ParallelJoin
  \/ \E nm \in {NoName} \cup Names : LateName(nm)
  \/ FinalWrite

EngineSpec == EngineInit /\ [][EngineNext]_vars

\* parallelMap(arr, limit, fn) on its own: arr and limit are drawn, fn is
\* scrapeYearInParallel
ParallelInit ==
  /\ now = 0
  /\ cache = <<>>
  /\ file = NoFile
  /\ reqs = [r \in Reqs |-> IdleReq]
  /\ timer = [r \in Reqs |-> NoTimer]
  /\ child = [r \in Reqs |-> NoChild]
  /\ resp = [r \in Reqs |-> <<>>]
  /\ nextRun = 1
  /\ lastOp = NoOp
  /\ ops = 0
  /\ engine = "parallel"
  /\ digits = normalizeCNPJ(IdA)
  /\ YEAR = "2024"
  /\ years \in YearLists
  /\ epc = "years"
  /\ all = <<>>
  /\ debitos = <<>>
  /\ idx = 0
  /\ ret = <<>>
  /\ workers = <<>>
  /\ found = <<>>
  /\ companyName = NoName
  /\ yearFiles = <<>>
  /\ outAll = <<>>
  /\ limit \in 1..PARALLEL_LIMIT
  /\ calls = [i \in 1..Len(years) |-> 0]
  /\ FnOff
  /\ NavOff

ParallelNext ==
  \/ ParallelStart
  \/ \E w \in 1..PARALLEL_LIMIT, out \in Outcomes : WorkerSettle(w, out)
  \/ ParallelJoin

ParallelSpec == ParallelInit /\ [][ParallelNext]_vars

\* ------------------------------------------------------ safeExtractDebits
\* 'Execution context was destroyed'
PatDestroyed ==
  <<"E", "x", "e", "c", "u", "t", "i", "o", "n", " ", "c", "o", "n", "t",
    "e", "x", "t", " ", "w", "a", "s", " ", "d", "e", "s", "t", "r", "o",
    "y", "e", "d">>
\* 'Execution context'
PatContext ==
  <<"E", "x", "e", "c", "u", "t", "i", "o", "n", " ", "c", "o", "n", "t",
    "e", "x", "t">>
\* 'Execution context was destroyed, most likely because of a navigation.'
MsgDestroyed ==
  <<"E", "x", "e", "c", "u", "t", "i", "o", "n", " ", "c", "o", "n", "t",
    "e", "x", "t", " ", "w", "a", "s", " ", "d", "e", "s", "t", "r", "o",
    "y", "e", "d", ",", " ", "m", "o", "s", "t", " ", "l", "i", "k", "e",
    "l", "y", " ", "b", "e", "c", "a", "u", "s", "e", " ", "o", "f", " ",
    "a", " ", "n", "a", "v", "i", "g", "a", "t", "i", "o", "n", ".">>
\* 'Execution context is not available in detached frame'
MsgContext ==
  <<"E", "x", "e", "c", "u", "t", "i", "o", "n", " ", "c", "o", "n", "t",
    "e", "x", "t", " ", "i", "s", " ", "n", "o", "t", " ", "a", "v", "a",
    "i", "l", "a", "b", "l", "e", " ", "i", "n", " ", "d", "e", "t", "a",
    "c", "h", "e", "d", " ", "f", "r", "a", "m", "e">>
\* 'Target closed'
MsgOther ==
  <<"T", "a", "r", "g", "e", "t", " ", "c", "l", "o", "s", "e", "d">>
ErrorMessages == {MsgDestroyed, MsgContext, MsgOther}

\* msg.includes(pat)
Includes(msg, pat) ==
  \E i \in 0..(Len(msg) - Len(pat)) : SubSeq(msg, i + 1, i + Len(pat)) = pat

IsContextLoss_Never(msg) == FALSE

IsContextLoss_Always(msg) == TRUE

IsContextLoss_OnlyDestroyed(msg) == Includes(msg, PatDestroyed)

\* msg.includes('Execution context was destroyed') || msg.includes('Execution context')
IsContextLoss(msg) == Includes(msg, PatDestroyed) \/ Includes(msg, PatContext)

\* what one call of extractDebits does: it returns rows records or throws an
\* Error with message msg
Returns(n) == [ok |-> TRUE, rows |-> n, msg |-> <<>>]
ThrowsMsg(m) == [ok |-> FALSE, rows |-> 0, msg |-> m]
Attempts == {Returns(n) : n \in 0..MaxRecs} \cup {ThrowsMsg(m) : m \in ErrorMessages}

\* how a call of safeExtractDebits ended: kind "return" with rows records or
\* kind "throw" with the error re-thrown; calls counts the invocations of
\* extractDebits and waits the sleeps
Ended(kind, rows, msg, nCalls, nWaits) ==
  [kind |-> kind, rows |-> rows, msg |-> msg, calls |-> nCalls, waits |-> nWaits]
NotCalled == Ended("none", 0, <<>>, 0, 0)

\* `for (let i = 0; i < tries; i++)` from i on; script[k] is what the k-th
\* invocation of extractDebits does
RECURSIVE safeExtractLoop(_, _, _, _)
safeExtractLoop(script, tries, i, nWaits) ==
  IF i >= tries THEN Ended("return", 0, <<>>, i, nWaits)
  ELSE IF script[i + 1].ok THEN Ended("return", script[i + 1].rows, <<>>, i + 1, nWaits)
  ELSE IF IsContextLoss(script[i + 1].msg)
       THEN safeExtractLoop(script, tries, i + 1, nWaits + 1)
       ELSE Ended("throw", 0, script[i + 1].msg, i + 1, nWaits)

safeExtractDebits(script, tries) == safeExtractLoop(script, tries, 0, 0)

Scripts == [1..MaxTries -> Attempts]

SafeInit ==
  /\ now = 0
  /\ cache = <<>>
  /\ file = NoFile
  /\ reqs = [r \in Reqs |-> IdleReq]
  /\ timer = [r \in Reqs |-> NoTimer]
  /\ child = [r \in Reqs |-> NoChild]
  /\ resp = [r \in Reqs |-> <<>>]
  /\ nextRun = 1
  /\ lastOp = NoOp
  /\ ops = 0
  /\ EngineOff
  /\ input \in [script : Scripts, tries : 0..MaxTries]
  /\ output = NotCalled
  /\ NavOff

CallSafeExtract ==
  /\ output = NotCalled
  /\ output' = safeExtractDebits(input.script, input.tries)
  /\ UNCHANGED <<dispVars, engineVars, input, navVars>>

SafeNext == CallSafeExtract

SafeSpec == SafeInit /\ [][SafeNext]_vars

\* ------------------------------------------- the normalization functions
\* scrape_playwright.js and the parallel engine: String(raw || '').replace(/\D/g, '')
normalizeCNPJ_playwright(raw) == StripNonDigits(OrEmpty(raw))

NormFunctions == {"sanitizeCNPJ", "normalizeCNPJ", "normalizeCNPJ_playwright"}
Normalize(f, x) ==
  CASE f = "sanitizeCNPJ" -> sanitizeCNPJ(x)
    [] f = "normalizeCNPJ" -> normalizeCNPJ(x)
    [] f = "normalizeCNPJ_playwright" -> normalizeCNPJ_playwright(x)

\* the characters of the raw identifiers
RawChars == {"1", "9", ".", "a"}
RawStrings == UNION {[1..n -> RawChars] : n \in 0..MaxLen}
NormInputs == RawStrings \cup {Undefined, Null, IdA, IdB}
NoNorm == [fn |-> "none", once |-> <<>>, twice |-> <<>>]

NormInit ==
  /\ now = 0
  /\ cache = <<>>
  /\ file = NoFile
  /\ reqs = [r \in Reqs |-> IdleReq]
  /\ timer = [r \in Reqs |-> NoTimer]
  /\ child = [r \in Reqs |-> NoChild]
  /\ resp = [r \in Reqs |-> <<>>]
  /\ nextRun = 1
  /\ lastOp = NoOp
  /\ ops = 0
  /\ EngineOff
  /\ input \in NormInputs
  /\ output = NoNorm
  /\ NavOff

\* f(input) and f(f(input))
CallNormalize(f) ==
  /\ output = NoNorm
  /\ output' = [fn |-> f, once |-> Normalize(f, input),
                twice |-> Normalize(f, Normalize(f, input))]
  /\ UNCHANGED <<dispVars, engineVars, input, navVars>>

NormNext == \E f \in NormFunctions : CallNormalize(f)

NormSpec == NormInit /\ [][NormNext]_vars

\* ------------------------------------------------------- getAvailableYears
\* Texts are sequences of characters; "a~", "i'" and "c," stand for the
\* letters a with tilde, i with acute and c with cedilla ("A~", "I'", "C,"
\* for the capitals).
\* 'não optante'
PatNaoOptante ==
  <<"n", "a~", "o", " ", "o", "p", "t", "a", "n", "t", "e">>
Txt2023 == <<"2", "0", "2", "3">>
Txt2024 == <<"2", "0", "2", "4">>
Txt2022 == <<"2", "0", "2", "2">>
Txt2021 == <<"2", "0", "2", "1">>
\* '2022 - não optante'
Txt2022Nao ==
  <<"2", "0", "2", "2", " ", "-", " ", "n", "a~", "o", " ", "o", "p",
    "t", "a", "n", "t", "e">>
\* '2021 - Não Optante'
Txt2021Nao ==
  <<"2", "0", "2", "1", " ", "-", " ", "N", "a~", "o", " ", "O", "p",
    "t", "a", "n", "t", "e">>

\* toLowerCase, and the case folding of the /i flag
LowerChar(c) ==
  CASE c = "A" -> "a"
    [] c = "B" -> "b"
    [] c = "C" -> "c"
    [] c = "D" -> "d"
    [] c = "E" -> "e"
    [] c = "F" -> "f"
    [] c = "G" -> "g"
    [] c = "H" -> "h"
    [] c = "I" -> "i"
    [] c = "J" -> "j"
    [] c = "K" -> "k"
    [] c = "L" -> "l"
    [] c = "M" -> "m"
    [] c = "N" -> "n"
    [] c = "O" -> "o"
    [] c = "P" -> "p"
    [] c = "Q" -> "q"
    [] c = "R" -> "r"
    [] c = "S" -> "s"
    [] c = "T" -> "t"
    [] c = "U" -> "u"
    [] c = "V" -> "v"
    [] c = "W" -> "w"
    [] c = "X" -> "x"
    [] c = "Y" -> "y"
    [] c = "Z" -> "z"
    [] c = "A~" -> "a~"
    [] c = "I'" -> "i'"
    [] c = "C," -> "c,"
    [] OTHER -> c
Lower(t) == [k \in 1..Len(t) |-> LowerChar(t[k])]

\* /não optante/i.test(t)
TestNaoOptante(t) == Includes(Lower(t), PatNaoOptante)
\* /^\d{4}$/.test(t)
TestFourDigits(t) == Len(t) = 4 /\ \A k \in 1..4 : t[k] \in Digits
\* t.match(/(\d{4})/): the first run of four digits, <<>> when there is none
FirstFourDigits(t) ==
  LET at == {k \in 1..(Len(t) - 3) : \A j \in 0..3 : t[k + j] \in Digits}
  IN IF at = {} THEN <<>>
     ELSE LET k == CHOOSE m \in at : \A n \in at : m <= n IN SubSeq(t, k, k + 3)

\* an <option> of the year select, or an element of the page scanned by the
\* fallback: text is its trimmed innerText, disabled whether it carries a
\* disabled marker, value the value attribute of an <option>
Option(value, text, disabled) == [value |-> value, text |-> text, disabled |-> disabled]
PageOptions ==
  { Option(Txt2023, Txt2023, FALSE),
    Option(Txt2024, Txt2024, TRUE),
    Option(Txt2022, Txt2022Nao, FALSE),
    Option(Txt2021, Txt2021Nao, TRUE),
    Option(<<>>, <<>>, FALSE) }
Menus == UNION {[1..n -> PageOptions] : n \in 0..MaxOpts}

\* scrape.js and the parallel engine, select branch:
\* opts.filter(o => o.text && !/não optante/i.test(o.text) && !o.disabled)
SelectFilter(o) == o.text # <<>> /\ ~TestNaoOptante(o.text) /\ ~o.disabled
\* scrape.js and the parallel engine, fallback: years.push({ value: t, text: t })
ScanFilter(o) == TestFourDigits(o.text) /\ ~TestNaoOptante(o.text) /\ ~o.disabled
ScanOption(o) == Option(o.text, o.text, FALSE)

\* scrape_playwright.js, fallback: what is pushed onto allOpts
PwScanTaken(o) == TestFourDigits(o.text) \/ TestNaoOptante(o.text)
PwScanOption(o) ==
  Option(IF FirstFourDigits(o.text) # <<>> THEN FirstFourDigits(o.text) ELSE o.text,
         o.text, TestNaoOptante(o.text) \/ o.disabled)
\* scrape_playwright.js: allOpts.filter(o => o.text && !o.disabled &&
\* /^\d{4}$/.test(o.value || o.text))
PwAvailable(o) ==
  /\ o.text # <<>>
  /\ ~o.disabled
  /\ TestFourDigits(IF o.value # <<>> THEN o.value ELSE o.text)

MapSeq(F(_), q) == [k \in 1..Len(q) |-> F(q[k])]

\* getAvailableYears(page) of engine e on a page whose year menu is `menu`,
\* a native select when isSelect and scanned elements otherwise; for
\* scrape_playwright.js the `available` list of the result
getAvailableYears(e, isSelect, menu) ==
  IF e = "sequential"
  THEN LET allOpts == IF isSelect THEN menu
                      ELSE MapSeq(PwScanOption, SelectSeq(menu, PwScanTaken))
       IN SelectSeq(allOpts, PwAvailable)
  ELSE IF isSelect THEN SelectSeq(menu, SelectFilter)
       ELSE MapSeq(ScanOption, SelectSeq(menu, ScanFilter))

NoYears == [called |-> FALSE, years |-> <<>>]

YearsInit ==
  /\ now = 0
  /\ cache = <<>>
  /\ file = NoFile
  /\ reqs = [r \in Reqs |-> IdleReq]
  /\ timer = [r \in Reqs |-> NoTimer]
  /\ child = [r \in Reqs |-> NoChild]
  /\ resp = [r \in Reqs |-> <<>>]
  /\ nextRun = 1
  /\ lastOp = NoOp
  /\ ops = 0
  /\ EngineOff
  /\ input \in [engine : Engines, isSelect : BOOLEAN, menu : Menus]
  /\ output = NoYears
  /\ NavOff

CallGetAvailableYears ==
  /\ output = NoYears
  /\ output' = [called |-> TRUE,
                years |-> getAvailableYears(input.engine, input.isSelect, input.menu)]
  /\ UNCHANGED <<dispVars, engineVars, input, navVars>>

YearsNext == CallGetAvailableYears

YearsSpec == YearsInit /\ [][YearsNext]_vars

\* ---------------------------------------------------------- extractDebits
\* The page of debits as extractDebits reads it: the rows of its tables in
\* document order.  A row holds the texts of its cells, th tells that the
\* cells are th elements, and newTable that the row is the first of a table
\* (the first row of the page always is).  Cells hold no nested element.
ScanYears == {<<"2", "0", "2", "3">>}

ThRow(cells) == [cells |-> cells, th |-> TRUE]
TdRow(cells) == [cells |-> cells, th |-> FALSE]

RowCatalogue ==
  { ThRow(<< <<"T", "o", "t", "a", "l">>, <<"D", "a", "t", "a", " ", " ", "d", "e", " ", "V", "e", "n", "c", "i", "m", "e", "n", "t", "o">> >>),
    TdRow(<< <<"V", "a", "l", "o", "r">>, <<"T", "o", "t", "a", "l">> >>),
    TdRow(<< <<"R", "$", " ", "1", ".", "2", "3", "4", ",", "5", "6">>, <<"1", "0", "/", "0", "2", "/", "2", "0", "2", "3">> >>),
    TdRow(<< <<"5", "6", ",", "0", "0">> >>),
    TdRow(<< <<"0", "1", "/", "2", "0", "2", "3">>, <<"1", "2", ".", "5", "0">> >>),
    TdRow(<< <<"2", "0", "2", "3">>, <<"1", ".", "2", "3", "4">> >>),
    TdRow(<< <<"P", "a", "g", "o">>, <<>> >>) }

PageRows ==
  { [cells |-> r.cells, th |-> r.th, newTable |-> b] :
      r \in RowCatalogue, b \in BOOLEAN }

Pages ==
  { p \in UNION { [1..n -> PageRows] : n \in 0..MaxRows } :
      Len(p) > 0 => p[1].newTable }

\* document.querySelectorAll('table'): the rows of the page, table by table
RECURSIVE TablesOf(_)
TablesOf(p) ==
  IF p = <<>> THEN <<>>
  ELSE LET n == Len(p)
           front == TablesOf(SubSeq(p, 1, n - 1))
       IN  IF p[n].newTable \/ front = <<>>
           THEN Append(front, << p[n] >>)
           ELSE [front EXCEPT ![Len(front)] = Append(@, p[n])]

WhiteSpace == {" ", "\t", "\n"}

\* String.prototype.trim
RECURSIVE Trim(_)
Trim(t) ==
  IF t = <<>> THEN t
  ELSE IF Head(t) \in WhiteSpace THEN Trim(Tail(t))
  ELSE IF t[Len(t)] \in WhiteSpace THEN Trim(SubSeq(t, 1, Len(t) - 1))
  ELSE t

\* replace(/\s+/g, ' ')
RECURSIVE CollapseSpaces(_)
CollapseSpaces(t) ==
  IF t = <<>> THEN t
  ELSE IF Head(t) \in WhiteSpace
       THEN IF Len(t) > 1 /\ t[2] \in WhiteSpace
            THEN CollapseSpaces(Tail(t))
            ELSE << " " >> \o CollapseSpaces(Tail(t))
       ELSE << Head(t) >> \o CollapseSpaces(Tail(t))

normalizeHeader(s) == Lower(Trim(CollapseSpaces(s)))

\* the texts of q joined by the separator sep
RECURSIVE Join(_, _)
Join(q, sep) ==
  IF q = <<>> THEN <<>>
  ELSE IF Len(q) = 1 THEN q[1]
  ELSE q[1] \o << sep >> \o Join(Tail(q), sep)

\* innerText of a row: the texts of its cells separated by tabs
RowInnerText(r) == Join(r.cells, "\t")

\* innerText of a table: the texts of its rows, one per line
TableInnerText(t) == Join(MapSeq(RowInnerText, t), "\n")

\* currencyRegex.test(text) on /R\$\s*[\d\.]+,\d{2}|[\d\.]+,\d{2}/g whose
\* lastIndex is li: the search starts at li, a match ends two digits after
\* the first comma that follows a digit or a dot not before li, and lastIndex
\* becomes the end of the match, or 0 when there is none.
CurrencyCommas(text, li) ==
  { c \in 2..(Len(text) - 2) :
      /\ text[c] = ","
      /\ c - 1 >= li + 1
      /\ text[c - 1] \in Digits \cup {"."}
      /\ text[c + 1] \in Digits
      /\ text[c + 2] \in Digits }

currencyRegexTest(text, li) ==
  LET C == CurrencyCommas(text, li)
  IN  IF C = {} THEN [matched |-> FALSE, lastIndex |-> 0]
      ELSE [matched |-> TRUE,
            lastIndex |-> (CHOOSE c \in C : \A d \in C : c <= d) + 2]

\* rowText.split(/\t+|\s{2,}/): the pieces between runs of tabs and runs of
\* two or more white-space characters
RECURSIVE SkipWhiteSpace(_)
SkipWhiteSpace(u) ==
  IF u # <<>> /\ Head(u) \in WhiteSpace THEN SkipWhiteSpace(Tail(u)) ELSE u

RECURSIVE SplitParts(_, _)
SplitParts(t, cur) ==
  IF t = <<>> THEN << cur >>
  ELSE IF Head(t) = "\t" \/ (Head(t) \in WhiteSpace /\ Len(t) > 1
                                /\ t[2] \in WhiteSpace)
       THEN << cur >> \o SplitParts(SkipWhiteSpace(t), <<>>)
       ELSE SplitParts(Tail(t), Append(cur, Head(t)))

\* .map(s => s.trim()).filter(Boolean)
PartsOf(rowText) ==
  SelectSeq(MapSeq(Trim, SplitParts(rowText, <<>>)), LAMBDA s : s # <<>>)

\* /\d+[\.,]\d{2}/.test(p)
TestAmountShape(p) ==
  \E i \in 1..(Len(p) - 3) :
    /\ p[i] \in Digits
    /\ p[i + 1] \in {".", ","}
    /\ p[i + 2] \in Digits
    /\ p[i + 3] \in Digits

\* parts.slice().reverse().find(...): the last part of amount shape
HasAmountPart(parts) == \E k \in 1..Len(parts) : TestAmountShape(parts[k])

AmountPart(parts) ==
  parts[CHOOSE k \in 1..Len(parts) :
          /\ TestAmountShape(parts[k])
          /\ \A j \in (k + 1)..Len(parts) : ~TestAmountShape(parts[j])]

\* amountPart.replace(/[R\$\s\.]/g, '').replace(',', '.'): the second
\* replace has a string pattern and changes the first comma only
StripAmount(p) ==
  SelectSeq(p, LAMBDA c : c \notin {"R", "$", "."} \cup WhiteSpace)

ReplaceFirstComma(t) ==
  IF \E i \in 1..Len(t) : t[i] = ","
  THEN LET i == CHOOSE k \in 1..Len(t) :
                  t[k] = "," /\ \A j \in 1..(k - 1) : t[j] # ","
       IN  [t EXCEPT ![i] = "."]
  ELSE t

AmountString(p) == ReplaceFirstComma(StripAmount(p))

\* the value of a run of decimal digits
RECURSIVE DigitsValue(_)
DigitsValue(t) ==
  IF t = <<>> THEN 0
  ELSE 10 * DigitsValue(SubSeq(t, 1, Len(t) - 1))
         + (CHOOSE d \in 0..9 : ToString(d) = t[Len(t)])

RECURSIVE DropTrailingZeros(_)
DropTrailingZeros(t) ==
  IF t # <<>> /\ t[Len(t)] = "0"
  THEN DropTrailingZeros(SubSeq(t, 1, Len(t) - 1)) ELSE t

\* amounts of a record: null, NaN, or the number num / 10^scale
NullAmount == [kind |-> "null", num |-> 0, scale |-> 0]
NaNAmount  == [kind |-> "NaN", num |-> 0, scale |-> 0]
Num(num, scale) == [kind |-> "number", num |-> num, scale |-> scale]

\* Number(s) on a text of digits, dots, commas and other characters: a
\* decimal literal (digits with at most one dot) has its value, any other
\* non-empty text is NaN
Number(s) ==
  LET dots == { i \in 1..Len(s) : s[i] = "." }
      isLiteral == /\ \A i \in 1..Len(s) : s[i] \in Digits \cup {"."}
                   /\ Cardinality(dots) <= 1
                   /\ \E i \in 1..Len(s) : s[i] \in Digits
  IN  IF ~isLiteral THEN NaNAmount
      ELSE IF dots = {} THEN Num(DigitsValue(s), 0)
      ELSE LET d == CHOOSE i \in dots : TRUE
               frac == DropTrailingZeros(SubSeq(s, d + 1, Len(s)))
           IN  Num(DigitsValue(SubSeq(s, 1, d - 1) \o frac), Len(frac))

\* amount ? Number(amount) : null
AmountOf(parts) ==
  IF ~HasAmountPart(parts) THEN NullAmount
  ELSE LET amount == AmountString(AmountPart(parts))
       IN  IF amount = <<>> THEN NullAmount ELSE Number(amount)

\* the record of a row of the loose scan
LooseRecord(rowText) ==
  [shape |-> "loose", raw |-> rowText, parts |-> PartsOf(rowText),
   amount |-> AmountOf(PartsOf(rowText))]

\* the header vocabulary of scrape.js and of server.js
expectedHeaders ==
  << <<"p", "e", "r", "i'", "o", "d", "o", " ", "d", "e", " ", "a", "p", "u", "r", "a", "c,", "a~", "o">>, <<"a", "p", "u", "r", "a", "d", "o">>, <<"b", "e", "n", "e", "f", "i'", "c", "i", "o", " ", "i", "n", "s", "s">>,
     <<"r", "e", "s", "u", "m", "o", " ", "d", "o", " ", "d", "a", "s", " ", "a", " ", "s", "e", "r", " ", "g", "e", "r", "a", "d", "o">>, <<"p", "r", "i", "n", "c", "i", "p", "a", "l">>, <<"m", "u", "l", "t", "a">>, <<"j", "u", "r", "o", "s">>,
     <<"t", "o", "t", "a", "l">>, <<"d", "a", "t", "a", " ", "d", "e", " ", "v", "e", "n", "c", "i", "m", "e", "n", "t", "o">>, <<"d", "a", "t", "a", " ", "d", "e", " ", "a", "c", "o", "l", "h", "i", "m", "e", "n", "t", "o">> >>

\* the header vocabulary of scrape_playwright.js
expectedHeadersPw ==
  << <<"p", "e", "r", "i'", "o", "d", "o", " ", "d", "e", " ", "a", "p", "u", "r", "a", "c,", "a~", "o">>, <<"p", "e", "r", "i", "o", "d", "o", " ", "d", "e", " ", "a", "p", "u", "r", "a", "c", "a", "o">>, <<"p", "e", "r", "i", "o", "d", "o">>, <<"m", "e", "s">>,
     <<"m", "e^", "s">>, <<"a", "p", "u", "r", "a", "d", "o">>, <<"v", "a", "l", "o", "r", " ", "a", "p", "u", "r", "a", "d", "o">>, <<"b", "e", "n", "e", "f", "i'", "c", "i", "o", " ", "i", "n", "s", "s">>,
     <<"b", "e", "n", "e", "f", "i", "c", "i", "o", " ", "i", "n", "s", "s">>, <<"i", "n", "s", "s">>, <<"r", "e", "s", "u", "m", "o", " ", "d", "o", " ", "d", "a", "s", " ", "a", " ", "s", "e", "r", " ", "g", "e", "r", "a", "d", "o">>, <<"d", "a", "s">>,
     <<"g", "u", "i", "a">>, <<"p", "r", "i", "n", "c", "i", "p", "a", "l">>, <<"v", "a", "l", "o", "r", " ", "p", "r", "i", "n", "c", "i", "p", "a", "l">>, <<"m", "u", "l", "t", "a">>, <<"j", "u", "r", "o", "s">>,
     <<"t", "o", "t", "a", "l">>, <<"v", "a", "l", "o", "r", " ", "t", "o", "t", "a", "l">>, <<"d", "a", "t", "a", " ", "d", "e", " ", "v", "e", "n", "c", "i", "m", "e", "n", "t", "o">>, <<"v", "e", "n", "c", "i", "m", "e", "n", "t", "o">>,
     <<"d", "a", "t", "a", " ", "v", "e", "n", "c", "i", "m", "e", "n", "t", "o">>, <<"d", "a", "t", "a", " ", "d", "e", " ", "a", "c", "o", "l", "h", "i", "m", "e", "n", "t", "o">>, <<"a", "c", "o", "l", "h", "i", "m", "e", "n", "t", "o">>,
     <<"d", "a", "t", "a", " ", "a", "c", "o", "l", "h", "i", "m", "e", "n", "t", "o">>, <<"s", "i", "t", "u", "a", "c,", "a~", "o">>, <<"s", "i", "t", "u", "a", "c", "a", "o">>, <<"s", "t", "a", "t", "u", "s">>, <<"p", "a", "g", "o">>,
     <<"p", "e", "n", "d", "e", "n", "t", "e">> >>

Range(q) == { q[k] : k \in 1..Len(q) }

\* `col_${k}`, k counted from 0
ColKey(k) == <<"c", "o", "l", "_">> \o << ToString(k) >>

\* cells[k] && innerText.trim() || null, k counted from 1
CellValue(cells, k) ==
  IF k <= Len(cells) /\ Trim(cells[k]) # <<>> THEN Trim(cells[k]) ELSE Null

\* rowObj after its first n assignments rowObj[keys[k]] = the value of cell
\* k: a later assignment to the same key replaces the earlier one
RECURSIVE RowObj(_, _, _)
RowObj(keys, cells, n) ==
  IF n = 0 THEN [k \in {} |-> Null]
  ELSE (keys[n] :> CellValue(cells, n)) @@ RowObj(keys, cells, n - 1)

\* table.querySelectorAll('th'): the th cells of the table
RECURSIVE ThCells(_)
ThCells(t) ==
  IF t = <<>> THEN <<>>
  ELSE (IF Head(t).th THEN Head(t).cells ELSE <<>>) \o ThCells(Tail(t))

\* the headers of a table: its th cells, else the cells of its first row
HeadersOf(t) ==
  IF ThCells(t) # <<>> THEN MapSeq(normalizeHeader, ThCells(t))
  ELSE MapSeq(normalizeHeader, t[1].cells)

hasExpected(headers) == \E h \in Range(headers) : h \in Range(expectedHeaders)

\* mapKeys[k] || `col_${k}`: an expected header maps to itself, another one
\* is kept as it is, an empty one gives the synthetic key
MapKeys(headers) ==
  [k \in 1..Len(headers) |->
     IF headers[k] = <<>> THEN ColKey(k - 1) ELSE headers[k]]

MappedRecord(keys, r) ==
  [shape |-> "mapped", obj |-> RowObj(keys, r.cells, Len(keys))]

\* the loose scan of the rows from row i on, the regex being at lastIndex li:
\* the regex is tested only on a row that does not hold the year
RECURSIVE ScanRows(_, _, _, _)
ScanRows(t, year, i, li) ==
  IF i > Len(t) THEN [recs |-> <<>>, lastIndex |-> li]
  ELSE LET rowText == Trim(RowInnerText(t[i]))
           hasYear == Includes(rowText, year)
           test    == currencyRegexTest(rowText, li)
           li2     == IF rowText = <<>> \/ hasYear THEN li ELSE test.lastIndex
           rec     == IF rowText # <<>> /\ (hasYear \/ test.matched)
                      THEN << LooseRecord(rowText) >> ELSE <<>>
           rest    == ScanRows(t, year, i + 1, li2)
       IN  [recs |-> << rec >> \o rest.recs, lastIndex |-> rest.lastIndex]

\* one turn of the loop over the tables in scrape.js and server.js: recs
\* holds, for each row of the table, the records the row gave
ScanTable(t, year, li) ==
  LET test    == currencyRegexTest(TableInnerText(t), li)
      headers == HeadersOf(t)
      loose   == ScanRows(t, year, 1, test.lastIndex)
  IN  IF ~test.matched
      THEN [accepted |-> FALSE, mapped |-> FALSE,
            recs |-> [i \in 1..Len(t) |-> <<>>], lastIndex |-> 0]
      ELSE IF hasExpected(headers) /\ headers # <<>>
      THEN [accepted |-> TRUE, mapped |-> TRUE,
            recs |-> [i \in 1..Len(t) |->
                        IF i = 1 THEN <<>>
                        ELSE << MappedRecord(MapKeys(headers), t[i]) >>],
            lastIndex |-> test.lastIndex]
      ELSE [accepted |-> TRUE, mapped |-> FALSE,
            recs |-> loose.recs, lastIndex |-> loose.lastIndex]

\* the start of the match of currencyRegex that ends after the comma at c,
\* the search starting at li: the run of digits and dots before the comma,
\* with the R$ and white space before the run when the search reaches them
RECURSIVE RunStart(_, _, _)
RunStart(text, s, li) ==
  IF s - 1 >= li + 1 /\ text[s - 1] \in Digits \cup {"."}
  THEN RunStart(text, s - 1, li) ELSE s

RECURSIVE MarkerStart(_, _, _)
MarkerStart(text, s, li) ==
  IF s - 1 >= li + 1 /\ text[s - 1] \in WhiteSpace
  THEN MarkerStart(text, s - 1, li)
  ELSE IF s - 2 >= li + 1 /\ text[s - 2] = "R" /\ text[s - 1] = "$"
  THEN s - 2 ELSE 0

MatchStart(text, c, li) ==
  LET run    == RunStart(text, c - 1, li)
      marker == IF run - 1 >= 1 /\ text[run - 1] \in Digits \cup {"."}
                THEN 0 ELSE MarkerStart(text, run, li)
  IN  IF marker > 0 THEN marker ELSE run

\* rowText.match(currencyRegex) || []: every match, the search starting at
\* 0 and going on at the end of each match; lastIndex is 0 afterwards
RECURSIVE AllMatches(_, _)
AllMatches(text, li) ==
  LET test == currencyRegexTest(text, li)
  IN  IF ~test.matched THEN <<>>
      ELSE << SubSeq(text, MatchStart(text, test.lastIndex - 2, li),
                     test.lastIndex) >>
             \o AllMatches(text, test.lastIndex)

\* expected.split(' ')[0]
RECURSIVE FirstWord(_)
FirstWord(t) ==
  IF t = <<>> \/ Head(t) = " " THEN <<>>
  ELSE << Head(t) >> \o FirstWord(Tail(t))

\* expectedHeaders.find(expected => headerKey === expected ||
\*   headerKey.includes(expected.split(' ')[0])) || headerKey
KeyMatches(headerKey, expected) ==
  headerKey = expected \/ Includes(headerKey, FirstWord(expected))

MappedKey(headerKey) ==
  IF \E k \in 1..Len(expectedHeadersPw) :
       KeyMatches(headerKey, expectedHeadersPw[k])
  THEN expectedHeadersPw[
         CHOOSE k \in 1..Len(expectedHeadersPw) :
           /\ KeyMatches(headerKey, expectedHeadersPw[k])
           /\ \A j \in 1..(k - 1) : ~KeyMatches(headerKey, expectedHeadersPw[j])]
  ELSE headerKey

\* headers[k] || `col_${k}`, mapped, for k up to the longer of the cells and
\* the headers
Max(a, b) == IF a >= b THEN a ELSE b

PwKeys(headers, cells) ==
  [k \in 1..Max(Len(cells), Len(headers)) |->
     MappedKey(IF k <= Len(headers) /\ headers[k] # <<>>
               THEN headers[k] ELSE ColKey(k - 1))]

PwRecord(headers, r, year) ==
  [shape |-> "table", year |-> year, source |-> "table",
   obj |-> RowObj(PwKeys(headers, r.cells), r.cells,
                  Max(Len(r.cells), Len(headers))),
   currencies |-> AllMatches(RowInnerText(r), 0),
   raw |-> RowInnerText(r)]

\* potentialHeaders.some(h => expectedHeaders.includes(h)) on row i
PwIsHeaderRow(t, i) ==
  \E h \in Range(MapSeq(normalizeHeader, t[i].cells)) :
    h \in Range(expectedHeadersPw)

\* the index of the header row among the first three rows, counted from 1,
\* or 0 when no row holds an expected header
PwHeaderRow(t) ==
  IF \E i \in 1..Min(3, Len(t)) : PwIsHeaderRow(t, i)
  THEN CHOOSE i \in 1..Min(3, Len(t)) :
         PwIsHeaderRow(t, i) /\ \A j \in 1..(i - 1) : ~PwIsHeaderRow(t, j)
  ELSE 0

PwHeaders(t) ==
  IF PwHeaderRow(t) > 0 THEN MapSeq(normalizeHeader, t[PwHeaderRow(t)].cells)
  ELSE [k \in 1..Len(t[1].cells) |-> ColKey(k - 1)]

\* the gate of a row in scrape_playwright.js, the regex being at lastIndex
\* li: a failed test leaves lastIndex at 0, so the tests of the cells start
\* at 0
PwRowIncluded(r, year, li) ==
  \/ currencyRegexTest(RowInnerText(r), li).matched
  \/ Includes(RowInnerText(r), year)
  \/ \E k \in 1..Len(r.cells) : currencyRegexTest(r.cells[k], 0).matched

\* the rows from row i on: an empty row leaves the regex as it is, any other
\* row leaves lastIndex at 0, by the failed tests or by String.match
RECURSIVE PwScanRows(_, _, _, _, _)
PwScanRows(t, headers, year, i, li) ==
  IF i > Len(t) THEN [recs |-> <<>>, lastIndex |-> li]
  ELSE LET empty == Trim(RowInnerText(t[i])) = <<>>
           rec   == IF ~empty /\ PwRowIncluded(t[i], year, li)
                    THEN << PwRecord(headers, t[i], year) >> ELSE <<>>
           rest  == PwScanRows(t, headers, year, i + 1,
                               IF empty THEN li ELSE 0)
       IN  [recs |-> << rec >> \o rest.recs, lastIndex |-> rest.lastIndex]

\* one turn of the loop over the containers in scrape_playwright.js, for a
\* container that is a table: the regex is tested on the text of the
\* container and again on the text of the table
PwScanTable(t, year, li) ==
  LET text    == TableInnerText(t)
      hasYear == Includes(text, year)
      test1   == currencyRegexTest(text, li)
      test2   == currencyRegexTest(text, test1.lastIndex)
      start   == PwHeaderRow(t) + 1
      scan    == PwScanRows(t, PwHeaders(t), year, start, test2.lastIndex)
  IN  IF ~test1.matched /\ ~hasYear
      THEN [accepted |-> FALSE, mapped |-> FALSE,
            recs |-> [i \in 1..Len(t) |-> <<>>], lastIndex |-> 0]
      ELSE IF ~test2.matched /\ ~hasYear
      THEN [accepted |-> FALSE, mapped |-> FALSE,
            recs |-> [i \in 1..Len(t) |-> <<>>], lastIndex |-> 0]
      ELSE [accepted |-> TRUE, mapped |-> PwHeaderRow(t) > 0,
            recs |-> [i \in 1..(start - 1) |-> <<>>] \o scan.recs,
            lastIndex |-> scan.lastIndex]

\* the loop over the tables, the regex being at lastIndex li before the
\* first one: tables holds the outcome of each table
RECURSIVE ScanTables(_, _, _, _)
ScanTables(e, ts, year, li) ==
  IF ts = <<>> THEN [tables |-> <<>>, lastIndex |-> li]
  ELSE LET first == IF e = "sequential" THEN PwScanTable(Head(ts), year, li)
                    ELSE ScanTable(Head(ts), year, li)
           rest  == ScanTables(e, Tail(ts), year, first.lastIndex)
       IN  [tables |-> << first >> \o rest.tables,
            lastIndex |-> rest.lastIndex]

RECURSIVE Flatten(_)
Flatten(q) == IF q = <<>> THEN <<>> ELSE Head(q) \o Flatten(Tail(q))

\* extractDebits of engine e on the page, for a regex at lastIndex li: the
\* records in document order, with the outcome of each table
extractDebitsFrom(e, page, year, li) ==
  LET scan == ScanTables(e, TablesOf(page), year, li)
  IN  [records |-> Flatten(MapSeq(LAMBDA t : Flatten(t.recs), scan.tables)),
       tables |-> scan.tables, lastIndex |-> scan.lastIndex]

\* every invocation creates its regex, whose lastIndex is 0
extractDebits(e, page, year) == extractDebitsFrom(e, page, year, 0)

\* two invocations of extractDebits on an unchanged page
Invocations == 2

ExtractInputs == [e : Engines, page : Pages, year : ScanYears]

ExtractInit ==
  /\ now = 0
  /\ cache = <<>>
  /\ file = NoFile
  /\ reqs = [r \in Reqs |-> IdleReq]
  /\ timer = [r \in Reqs |-> NoTimer]
  /\ child = [r \in Reqs |-> NoChild]
  /\ resp = [r \in Reqs |-> <<>>]
  /\ nextRun = 1
  /\ lastOp = NoOp
  /\ ops = 0
  /\ EngineOff
  /\ input \in ExtractInputs
  /\ output = <<>>
  /\ NavOff

\* a regex kept between the invocations would start where the last one left
\* it
CallExtractDebits_SharedRegex ==
  /\ Len(output) < Invocations
  /\ output' = Append(output,
       extractDebitsFrom(input.e, input.page, input.year,
         IF output = <<>> THEN 0 ELSE output[Len(output)].lastIndex))
  /\ UNCHANGED <<dispVars, engineVars, input, navVars>>

CallExtractDebits ==
  /\ Len(output) < Invocations
  /\ output' = Append(output,
                      extractDebits(input.e, input.page, input.year))
  /\ UNCHANGED <<dispVars, engineVars, input, navVars>>

ExtractNext == CallExtractDebits

ExtractSpec == ExtractInit /\ [][ExtractNext]_vars

\* ------------------------------------------- the two /scrape handlers
\* The handlers up to the spawn, as functions of the request parameters and
\* of the cache: req.body for POST, req.query for GET.
SCRAPE_SCRIPT == <<"s", "c", "r", "a", "p", "e", ".", "j", "s">>
SCRAPE_PLAYWRIGHT == <<"s", "c", "r", "a", "p", "e", "_", "p", "l", "a", "y", "w", "r", "i", "g", "h", "t", ".", "j", "s">>

Methods == {"POST", "GET"}

\* the truth value of a string or of undefined
Truthy(x) == x \notin {Undefined, Null, <<>>}

\* engine === 'playwright' ? SCRAPE_PLAYWRIGHT : SCRAPE_SCRIPT, engine being
\* the parameter or 'puppeteer'
ScriptOf(engineParam) ==
  IF (IF Truthy(engineParam) THEN engineParam ELSE <<"p", "u", "p", "p", "e", "t", "e", "e", "r">>)
       = <<"p", "l", "a", "y", "w", "r", "i", "g", "h", "t">>
  THEN SCRAPE_PLAYWRIGHT ELSE SCRAPE_SCRIPT

\* POST: if (noHeadless); GET: if (noHeadless && String(noHeadless) !== '0')
NoHeadlessFlag(method, noHeadless) ==
  IF method = "POST" THEN Truthy(noHeadless)
  ELSE Truthy(noHeadless) /\ noHeadless # <<"0">>

\* the argument list of the engine
ScrapeArgs(method, q, cnpjRaw) ==
  << ScriptOf(q.engine), <<"-", "-", "c", "n", "p", "j", "=">> \o cnpjRaw >>
    \o (IF Truthy(q.year) THEN << <<"-", "-", "y", "e", "a", "r", "=">> \o q.year >> ELSE <<>>)
    \o (IF Truthy(q.month) THEN << <<"-", "-", "m", "o", "n", "t", "h", "=">> \o q.month >> ELSE <<>>)
    \o (IF NoHeadlessFlag(method, q.noHeadless)
        THEN << <<"-", "-", "n", "o", "-", "h", "e", "a", "d", "l", "e", "s", "s">> >> ELSE <<>>)

\* what the handler does with the request q when the cache is c at time t:
\* the response 400, the cached response, or the spawn of the engine
HandlerPlan(method, q, c, t) ==
  LET cnpjRaw == sanitizeCNPJ(OrEmpty(q.cnpj))
      key     == makeKey(cnpjRaw, q.year, q.month)
      got     == getFromCache(c, key, t)
  IN  IF cnpjRaw = Null \/ Len(cnpjRaw) < MIN_DIGITS
      THEN [does |-> "respond", status |-> 400, cached |-> FALSE,
            key |-> NoKey, result |-> NoAgg, args |-> <<>>]
      ELSE IF got.hit
      THEN [does |-> "respond", status |-> 200, cached |-> TRUE,
            key |-> key, result |-> got.value, args |-> <<>>]
      ELSE [does |-> "spawn", status |-> 0, cached |-> FALSE,
            key |-> key, result |-> NoAgg,
            args |-> ScrapeArgs(method, q, cnpjRaw)]

HandlerInputs ==
  [cnpj : RawIds,
   year : {Undefined, <<"2", "0", "2", "4">>},
   month : {Undefined, <<"1">>},
   noHeadless : {Undefined, <<>>, <<"0">>, <<"1">>},
   engine : {Undefined, <<"p", "u", "p", "p", "e", "t", "e", "e", "r">>, <<"p", "l", "a", "y", "w", "r", "i", "g", "h", "t">>}]

HandlerInit ==
  /\ now = 0
  /\ cache \in {<<>>, MapSet(<<>>, KeyA, 0, [cnpj |-> KeyA[1], run |-> 1])}
  /\ file = NoFile
  /\ reqs = [r \in Reqs |-> IdleReq]
  /\ timer = [r \in Reqs |-> NoTimer]
  /\ child = [r \in Reqs |-> NoChild]
  /\ resp = [r \in Reqs |-> <<>>]
  /\ nextRun = 1
  /\ lastOp = NoOp
  /\ ops = 0
  /\ EngineOff
  /\ input \in HandlerInputs
  /\ output = <<>>
  /\ NavOff

\* the same request sent to each of the two handlers
CallHandlers ==
  /\ output = <<>>
  /\ output' = [m \in Methods |-> HandlerPlan(m, input, cache, now)]
  /\ UNCHANGED <<dispVars, engineVars, input, navVars>>

HandlerNext == CallHandlers

HandlerSpec == HandlerInit /\ [][HandlerNext]_vars

\* ------------------------------------------------------- a run of an engine
\* main of the three engine scripts from the check of the arguments to
\* browser.close(): the entry page, the CAPTCHA poll, the identifier field,
\* the menu, the years and the files. What the page does (an element is
\* there or not, an await rejects) is drawn.
maxWait(e) == IF e = "puppeteer" THEN 100 ELSE 20000
POLL_SLEEP == 500

Last(q) == q[Len(q)]
Has(q, x) == \E k \in 1..Len(q) : q[k] = x

\* what getAvailableYears returns in a run: up to MaxYears years, the two
\* labels in turn
RunYearLists ==
  {[i \in 1..k |-> IF i % 2 = 1 THEN "2023" ELSE "2024"] : k \in 0..MaxYears}

\* what an extraction returns in a run: nothing, rows, or a throw
RunOutcomes == {0, MaxRecs, Throws}

\* debitos_all.json before the run: absent, or left by a run for another
\* identifier
EarlierCombined == {<<>>, <<Aggregate(normalizeCNPJ(IdB), NoName, <<>>)>>}

\* position i of `years` is the one the loop, or a worker, is at
Active(i) ==
  /\ i \in 1..Len(years)
  /\ IF engine = "parallel"
     THEN epc = "map" /\ \E w \in DOMAIN workers : workers[w] = i
     ELSE epc = "years" /\ i = idx + 1

\* next() of parallelMap for the worker that awaited element i
NextElement(i) ==
  [w \in DOMAIN workers |->
     IF workers[w] = i THEN (IF idx >= Len(years) THEN 0 ELSE idx + 1)
     ELSE workers[w]]

RunInit ==
  /\ now = 0
  /\ cache = <<>>
  /\ file = NoFile
  /\ reqs = [r \in Reqs |-> IdleReq]
  /\ timer = [r \in Reqs |-> NoTimer]
  /\ child = [r \in Reqs |-> NoChild]
  /\ resp = [r \in Reqs |-> <<>>]
  /\ nextRun = 1
  /\ lastOp = NoOp
  /\ ops = 0
  /\ engine \in Engines
  /\ digits = <<>>
  /\ YEAR = "2024"
  /\ years = <<>>
  /\ epc = "args"
  /\ all = <<>>
  /\ debitos = <<>>
  /\ idx = 0
  /\ ret = <<>>
  /\ workers = <<>>
  /\ found = <<>>
  /\ companyName = NoName
  /\ yearFiles = <<>>
  /\ outAll \in EarlierCombined
  /\ limit = PARALLEL_LIMIT
  /\ calls = <<>>
  /\ FnOff
  /\ CNPJ \in {<<>>, IdA}
  /\ hcaptcha = "absent"
  /\ elapsed = 0
  /\ cnpjEl = "unset"
  /\ steps = <<>>
  /\ ysteps = <<>>
  /\ printed = <<>>
  /\ exitCode = CodeNull

\* `if (!CNPJ) { console.error(...); process.exit(1); }`; the playwright
\* engines then normalize the identifier
CheckArgs ==
  /\ epc = "args"
  /\ IF CNPJ = <<>>
     THEN /\ printed' = Append(printed, "usage")
          /\ exitCode' = 1
          /\ epc' = "exited"
          /\ UNCHANGED digits
     ELSE /\ epc' = "goto"
          /\ digits' = IF engine = "puppeteer" THEN digits
                       ELSE normalizeCNPJ_playwright(CNPJ)
          /\ UNCHANGED <<printed, exitCode>>
  /\ UNCHANGED <<engine, YEAR, years, all, debitos, idx, ret, workers, found,
                 companyName, yearFiles, outAll, limit, calls, CNPJ, hcaptcha, elapsed,
                 cnpjEl, steps, ysteps>>
  /\ UNCHANGED <<dispVars, fnVars>>

\* the browser is launched (or connected to) and page.goto loads the entry
\* page, which may hold the hCaptcha interstitial; a rejection of one of
\* these awaits is handled nowhere and ends the process
Goto(ok, hc) ==
  /\ epc = "goto"
  /\ IF ok
     THEN /\ epc' = IF engine = "sequential" THEN "input" ELSE "captcha"
          /\ hcaptcha' = hc
          /\ UNCHANGED exitCode
     ELSE /\ epc' = "crashed"
          /\ exitCode' = 1
          /\ UNCHANGED hcaptcha
  /\ UNCHANGED <<engine, digits, YEAR, years, all, debitos, idx, ret, workers, found,
                 companyName, yearFiles, outAll, limit, calls, CNPJ, elapsed, cnpjEl,
                 steps, ysteps, printed>>
  /\ UNCHANGED <<dispVars, fnVars>>

\* hasHCaptcha: the poll is entered only when the interstitial is detected
DetectCaptcha ==
  /\ epc = "captcha"
  /\ epc' = IF hcaptcha = "present" THEN "poll" ELSE "input"
  /\ elapsed' = 0
  /\ UNCHANGED <<engine, digits, YEAR, years, all, debitos, idx, ret, workers, found,
                 companyName, yearFiles, outAll, limit, calls, CNPJ, hcaptcha, cnpjEl,
                 steps, ysteps, printed, exitCode>>
  /\ UNCHANGED <<dispVars, fnVars>>

\* the page: the interstitial goes away, or a table or the inline list
\* appears, while the engine polls
CaptchaCleared ==
  /\ epc = "poll"
  /\ hcaptcha = "present"
  /\ hcaptcha' = "gone"
  /\ UNCHANGED <<engine, digits, YEAR, years, epc, all, debitos, idx, ret, workers,
                 found, companyName, yearFiles, outAll, limit, calls, CNPJ, elapsed,
                 cnpjEl, steps, ysteps, printed, exitCode>>
  /\ UNCHANGED <<dispVars, fnVars>>

\* a poll that gives the run up when the bound elapsed and the interstitial
\* is still there
PollCaptcha_Abort ==
  /\ epc = "poll"
  /\ IF hcaptcha = "gone"
     THEN /\ epc' = "input"
          /\ elapsed' = 0
          /\ UNCHANGED exitCode
     ELSE IF elapsed >= maxWait(engine)
     THEN /\ epc' = "exited"
          /\ exitCode' = 1
          /\ UNCHANGED elapsed
     ELSE /\ elapsed' = elapsed + POLL_SLEEP
          /\ UNCHANGED <<epc, exitCode>>
  /\ UNCHANGED <<engine, digits, YEAR, years, all, debitos, idx, ret, workers, found,
                 companyName, yearFiles, outAll, limit, calls, CNPJ, hcaptcha, cnpjEl,
                 steps, ysteps, printed>>
  /\ UNCHANGED <<dispVars, fnVars>>

\* a loop that tests the page only, without the bound on the elapsed time
PollCaptcha_NoBound ==
  /\ epc = "poll"
  /\ IF hcaptcha = "gone"
     THEN /\ epc' = "input"
          /\ elapsed' = 0
     ELSE UNCHANGED <<epc, elapsed>>
  /\ UNCHANGED <<engine, digits, YEAR, years, all, debitos, idx, ret, workers, found,
                 companyName, yearFiles, outAll, limit, calls, CNPJ, hcaptcha, cnpjEl,
                 steps, ysteps, printed, exitCode>>
  /\ UNCHANGED <<dispVars, fnVars>>

\* one test of `while (Date.now() - start < maxWait)` and one turn of the
\* loop: break when the page changed, else sleep(500)
PollCaptcha ==
  /\ epc = "poll"
  /\ IF elapsed >= maxWait(engine) \/ hcaptcha = "gone"
     THEN /\ epc' = "input"
          /\ elapsed' = 0
     ELSE /\ elapsed' = elapsed + POLL_SLEEP
          /\ UNCHANGED epc
  /\ UNCHANGED <<engine, digits, YEAR, years, all, debitos, idx, ret, workers, found,
                 companyName, yearFiles, outAll, limit, calls, CNPJ, hcaptcha, cnpjEl,
                 steps, ysteps, printed, exitCode>>
  /\ UNCHANGED <<dispVars, fnVars>>

\* the run goes on although findCNPJInput returned null
FindInput_NoExit(el) ==
  /\ epc = "input"
  /\ cnpjEl' = el
  /\ epc' = "fill"
  /\ UNCHANGED <<printed, exitCode, steps>>
  /\ UNCHANGED <<engine, digits, YEAR, years, all, debitos, idx, ret, workers, found,
                 companyName, yearFiles, outAll, limit, calls, CNPJ, hcaptcha, elapsed,
                 ysteps>>
  /\ UNCHANGED <<dispVars, fnVars>>

\* findCNPJInput, and `if (!cnpjEl) { console.error(...); await
\* browser.close(); process.exit(1); }`
FindInput(el) ==
  /\ epc = "input"
  /\ cnpjEl' = el
  /\ IF el = "null"
     THEN /\ printed' = Append(printed, "notFound")
          /\ steps' = Append(steps, "close")
          /\ exitCode' = 1
          /\ epc' = "exited"
     ELSE /\ epc' = "fill"
          /\ UNCHANGED <<printed, exitCode, steps>>
  /\ UNCHANGED <<engine, digits, YEAR, years, all, debitos, idx, ret, workers, found,
                 companyName, yearFiles, outAll, limit, calls, CNPJ, hcaptcha, elapsed,
                 ysteps>>
  /\ UNCHANGED <<dispVars, fnVars>>

\* the field is filled with the digits, the name of the inline list is read
\* and Enter is pressed; every failure of these is caught
SubmitIdentifier(nm) ==
  /\ epc = "fill"
  /\ digits' = IF engine = "puppeteer" THEN normalizeCNPJ(CNPJ) ELSE digits
  /\ companyName' = nm
  /\ hcaptcha' = "absent"
  /\ steps' = Append(steps, "submit")
  /\ epc' = "menu"
  /\ UNCHANGED <<engine, YEAR, years, all, debitos, idx, ret, workers, found, yearFiles,
                 outAll, limit, calls, CNPJ, elapsed, cnpjEl, ysteps, printed, exitCode>>
  /\ UNCHANGED <<dispVars, fnVars>>

\* the menu 'Emitir Guia de Pagamento (DAS)' is looked up and clicked when
\* found
ClickMenu ==
  /\ epc = "menu"
  /\ steps' = Append(steps, "menu")
  /\ epc' = "enumerate"
  /\ UNCHANGED <<engine, digits, YEAR, years, all, debitos, idx, ret, workers, found,
                 companyName, yearFiles, outAll, limit, calls, CNPJ, hcaptcha, elapsed,
                 cnpjEl, ysteps, printed, exitCode>>
  /\ UNCHANGED <<dispVars, fnVars>>

\* getAvailableYears: scrape.js calls it inside the try block of the year
\* loop, the playwright engines outside any try
EnumerateYears(ys, ok) ==
  /\ epc = "enumerate"
  /\ IF ok
     THEN /\ years' = ys
          /\ ysteps' = [i \in 1..Len(ys) |-> <<>>]
          /\ steps' = Append(steps, "enumerate")
          /\ epc' = "years"
          /\ UNCHANGED <<debitos, exitCode>>
     ELSE IF engine = "puppeteer"
     THEN /\ debitos' = <<>>
          /\ epc' = "name"
          /\ UNCHANGED <<years, ysteps, steps, exitCode>>
     ELSE /\ epc' = "crashed"
          /\ exitCode' = 1
          /\ UNCHANGED <<years, ysteps, steps, debitos>>
  /\ UNCHANGED <<engine, digits, YEAR, all, idx, ret, workers, found, companyName,
                 yearFiles, outAll, limit, calls, CNPJ, hcaptcha, elapsed, cnpjEl,
                 printed>>
  /\ UNCHANGED <<dispVars, fnVars>>

\* parallelMap up to `await Promise.all(workers)`
ClaimYears ==
  /\ engine = "parallel"
  /\ epc = "years"
  /\ Len(years) > 0
  /\ workers' = [w \in 1..Min(limit, Len(years)) |-> w]
  /\ idx' = Min(limit, Len(years))
  /\ epc' = "map"
  /\ UNCHANGED <<engine, digits, YEAR, years, all, debitos, ret, found, companyName,
                 yearFiles, outAll, limit, calls, CNPJ, hcaptcha, elapsed, cnpjEl, steps,
                 ysteps, printed, exitCode>>
  /\ UNCHANGED <<dispVars, fnVars>>

\* scrapeYearInParallel up to the menu click: a new page, goto, the field,
\* the digits, Enter and the menu; without the field the year gives no item
OpenYearPage(i, res) ==
  /\ engine = "parallel"
  /\ Active(i)
  /\ ysteps[i] = <<>>
  /\ IF res = "throws"
     THEN /\ epc' = "crashed"
          /\ exitCode' = 1
          /\ UNCHANGED <<ysteps, ret, workers, idx>>
     ELSE IF res = "null"
     THEN /\ ysteps' = [ysteps EXCEPT ![i] = <<"open", "done">>]
          /\ ret' = (i :> YearResult(years[i], <<>>)) @@ ret
          /\ workers' = NextElement(i)
          /\ idx' = IF idx >= Len(years) THEN idx ELSE idx + 1
          /\ UNCHANGED <<epc, exitCode>>
     ELSE /\ ysteps' = [ysteps EXCEPT ![i] = <<"open", "submit", "menu">>]
          /\ UNCHANGED <<epc, exitCode, ret, workers, idx>>
  /\ UNCHANGED <<engine, digits, YEAR, years, all, debitos, found, companyName,
                 yearFiles, outAll, limit, calls, CNPJ, hcaptcha, elapsed, cnpjEl, steps,
                 printed>>
  /\ UNCHANGED <<dispVars, fnVars>>

\* scrapeAllYearsSequential: the menu is clicked again before each year
ClickYearMenu(i) ==
  /\ engine = "sequential"
  /\ Active(i)
  /\ ysteps[i] = <<>>
  /\ ysteps' = [ysteps EXCEPT ![i] = <<"menu">>]
  /\ UNCHANGED <<engine, digits, YEAR, years, epc, all, debitos, idx, ret, workers,
                 found, companyName, yearFiles, outAll, limit, calls, CNPJ, hcaptcha,
                 elapsed, cnpjEl, steps, printed, exitCode>>
  /\ UNCHANGED <<dispVars, fnVars>>

\* the year is selected in the select element or in the dropdown; a failure
\* is caught
SelectYear(i) ==
  /\ Active(i)
  /\ IF engine = "puppeteer" THEN ysteps[i] = <<>>
     ELSE ysteps[i] # <<>> /\ Last(ysteps[i]) = "menu"
  /\ ysteps' = [ysteps EXCEPT ![i] = Append(@, "select")]
  /\ UNCHANGED <<engine, digits, YEAR, years, epc, all, debitos, idx, ret, workers,
                 found, companyName, yearFiles, outAll, limit, calls, CNPJ, hcaptcha,
                 elapsed, cnpjEl, steps, printed, exitCode>>
  /\ UNCHANGED <<dispVars, fnVars>>

\* the consult buttons are tried and the result is awaited with a timeout
Consult(i) ==
  /\ Active(i)
  /\ ysteps[i] # <<>> /\ Last(ysteps[i]) = "select"
  /\ ysteps' = [ysteps EXCEPT ![i] = Append(@, "consult")]
  /\ UNCHANGED <<engine, digits, YEAR, years, epc, all, debitos, idx, ret, workers,
                 found, companyName, yearFiles, outAll, limit, calls, CNPJ, hcaptcha,
                 elapsed, cnpjEl, steps, printed, exitCode>>
  /\ UNCHANGED <<dispVars, fnVars>>

\* safeExtractDebits for the year, the file of the year and the result:
\* scrape.js catches a throw after the loop, the playwright engines do not
ExtractYear(i, out) ==
  LET y     == years[i]
      items == Rows(y, out)
      log   == IF Len(items) > 0 THEN <<"extract", "write", "done">>
               ELSE <<"extract", "done">>
  IN
  /\ Active(i)
  /\ ysteps[i] # <<>> /\ Last(ysteps[i]) = "consult"
  /\ IF out = Throws
     THEN /\ ysteps' = [ysteps EXCEPT ![i] = Append(@, "extract")]
          /\ epc' = IF engine = "puppeteer" THEN "name" ELSE "crashed"
          /\ exitCode' = IF engine = "puppeteer" THEN exitCode ELSE 1
          /\ debitos' = <<>>
          /\ UNCHANGED <<yearFiles, all, ret, workers, idx>>
     ELSE /\ ysteps' = [ysteps EXCEPT ![i] = @ \o log]
          /\ yearFiles' = WriteYearFile(yearFiles, y, items)
          /\ all' = IF engine = "sequential"
                       \/ (engine = "puppeteer" /\ Len(items) > 0)
                    THEN Append(all, YearResult(y, items)) ELSE all
          /\ ret' = IF engine = "parallel"
                    THEN (i :> YearResult(y, items)) @@ ret ELSE ret
          /\ workers' = IF engine = "parallel" THEN NextElement(i) ELSE workers
          /\ idx' = IF idx >= Len(years) THEN idx ELSE idx + 1
          /\ UNCHANGED <<epc, exitCode, debitos>>
  /\ UNCHANGED <<engine, digits, YEAR, years, found, companyName, outAll, limit, calls,
                 CNPJ, hcaptcha, elapsed, cnpjEl, steps, printed>>
  /\ UNCHANGED <<dispVars, fnVars>>

\* the combined file is written as soon as the years are enumerated
WriteCombined_Early ==
  /\ epc \in {"years", "map"}
  /\ Len(years) > 0
  /\ ~Has(steps, "writeAll")
  /\ all' = IF engine = "parallel" THEN ret ELSE all
  /\ outAll' = <<Aggregate(digits, companyName,
                           IF engine = "parallel" THEN ret ELSE all)>>
  /\ debitos' = IF engine = "puppeteer" THEN all ELSE debitos
  /\ steps' = Append(steps, "writeAll")
  /\ UNCHANGED epc
  /\ UNCHANGED <<engine, digits, YEAR, years, idx, ret, workers, found, companyName,
                 yearFiles, limit, calls, CNPJ, hcaptcha, elapsed, cnpjEl, ysteps,
                 printed, exitCode>>
  /\ UNCHANGED <<dispVars, fnVars>>

\* the end of the year loop, or of Promise.all, and
\* fs.writeFileSync('debitos_all.json')
WriteCombined ==
  /\ Len(years) > 0
  /\ IF engine = "parallel"
     THEN epc = "map" /\ \A w \in DOMAIN workers : workers[w] = 0
     ELSE epc = "years" /\ idx = Len(years)
  /\ all' = IF engine = "parallel" THEN ret ELSE all
  /\ outAll' = <<Aggregate(digits, companyName,
                           IF engine = "parallel" THEN ret ELSE all)>>
  /\ debitos' = IF engine = "puppeteer" THEN all ELSE debitos
  /\ steps' = Append(steps, "writeAll")
  /\ epc' = "name"
  /\ UNCHANGED <<engine, digits, YEAR, years, idx, ret, workers, found, companyName,
                 yearFiles, limit, calls, CNPJ, hcaptcha, elapsed, cnpjEl, ysteps,
                 printed, exitCode>>
  /\ UNCHANGED <<dispVars, fnVars>>

\* no year was enumerated: safeExtractDebits for YEAR; the playwright engines
\* write the combined file with what it returned
ExtractDefaultYear(out) ==
  /\ epc = "years"
  /\ Len(years) = 0
  /\ IF out = Throws
     THEN /\ epc' = IF engine = "puppeteer" THEN "name" ELSE "crashed"
          /\ exitCode' = IF engine = "puppeteer" THEN exitCode ELSE 1
          /\ debitos' = <<>>
          /\ UNCHANGED <<outAll, steps>>
     ELSE /\ epc' = "name"
          /\ debitos' = IF engine = "puppeteer" THEN Rows(YEAR, out)
                        ELSE debitos
          /\ outAll' = IF engine = "puppeteer" THEN outAll
                       ELSE <<Aggregate(digits, companyName, Rows(YEAR, out))>>
          /\ steps' = IF engine = "puppeteer" THEN Append(steps, "extract")
                      ELSE steps \o <<"extract", "writeAll">>
          /\ UNCHANGED exitCode
  /\ UNCHANGED <<engine, digits, YEAR, years, all, idx, ret, workers, found, companyName,
                 yearFiles, limit, calls, CNPJ, hcaptcha, elapsed, cnpjEl, ysteps,
                 printed>>
  /\ UNCHANGED <<dispVars, fnVars>>

\* the late name and the rewrite of the combined file
RewriteName(nm) ==
  /\ epc = "name"
  /\ epc' = IF engine = "puppeteer" THEN "final" ELSE "close"
  /\ IF nm = NoName
     THEN UNCHANGED <<companyName, outAll>>
     ELSE /\ companyName' = IF engine = "sequential" THEN companyName ELSE nm
          /\ outAll' = IF outAll # <<>>
                       THEN <<[outAll[1] EXCEPT !.companyName = nm]>>
                       ELSE outAll
  /\ UNCHANGED <<engine, digits, YEAR, years, all, debitos, idx, ret, workers, found,
                 yearFiles, limit, calls, CNPJ, hcaptcha, elapsed, cnpjEl, steps, ysteps,
                 printed, exitCode>>
  /\ UNCHANGED <<dispVars, fnVars>>

\* scrape.js: `if (debitos && debitos.length)` write debitos_${YEAR}.json
WriteDefaultYear ==
  /\ engine = "puppeteer"
  /\ epc = "final"
  /\ yearFiles' = IF Len(debitos) > 0
                  THEN (YEAR :> YearFile(digits, companyName, YEAR, debitos))
                         @@ yearFiles
                  ELSE yearFiles
  /\ epc' = "close"
  /\ UNCHANGED <<engine, digits, YEAR, years, all, debitos, idx, ret, workers, found,
                 companyName, outAll, limit, calls, CNPJ, hcaptcha, elapsed, cnpjEl,
                 steps, ysteps, printed, exitCode>>
  /\ UNCHANGED <<dispVars, fnVars>>

\* the screenshot and browser.close(): scrape.js does not catch a rejection
\* of page.screenshot
CloseBrowser(ok) ==
  /\ epc = "close"
  /\ IF ok \/ engine # "puppeteer"
     THEN /\ steps' = Append(steps, "close")
          /\ exitCode' = 0
          /\ epc' = "closed"
     ELSE /\ epc' = "crashed"
          /\ exitCode' = 1
          /\ UNCHANGED steps
  /\ UNCHANGED <<engine, digits, YEAR, years, all, debitos, idx, ret, workers, found,
                 companyName, yearFiles, outAll, limit, calls, CNPJ, hcaptcha, elapsed,
                 cnpjEl, ysteps, printed>>
  /\ UNCHANGED <<dispVars, fnVars>>

\* the steps of the engine
RunEngineNext ==
  \/ CheckArgs
  \/ \E ok \in BOOLEAN, hc \in {"absent", "present"} : Goto(ok, hc)
  \/ DetectCaptcha
  \/ PollCaptcha
  \/ \E el \in {"null", "element"} : FindInput(el)
  \/ \E nm \in {NoName} \cup Names : SubmitIdentifier(nm)
  \/ ClickMenu
  \/ \E ys \in RunYearLists, ok \in BOOLEAN : EnumerateYears(ys, ok)
  \/ ClaimYears
  \/ \E i \in 1..MaxYears, res \in {"element", "null", "throws"} : OpenYearPage(i, res)
  \/ \E i \in 1..MaxYears : ClickYearMenu(i)
  \/ \E i \in 1..MaxYears : SelectYear(i)
  \/ \E i \in 1..MaxYears : Consult(i)
  \/ \E i \in 1..MaxYears, out \in RunOutcomes : ExtractYear(i, out)
  \/ WriteCombined
  \/ \E out \in RunOutcomes : ExtractDefaultYear(out)
  \/ \E nm \in {NoName} \cup Names : RewriteName(nm)
  \/ WriteDefaultYear
  \/ \E ok \in BOOLEAN : CloseBrowser(ok)

RunNext ==
  \/ RunEngineNext
  \/ CaptchaCleared

RunSpec == RunInit /\ [][RunNext]_vars

\* the event loop runs every step of the engine that can be taken; the page
\* owes nothing
FairRunSpec == RunSpec /\ WF_vars(RunEngineNext)

\* ------------------------------------- header-driven mapping on its own
\* extractDebits of scrape_playwright.js on a page with one table: a row of
\* th cells with headers of the vocabulary and one row of td cells, the cell
\* of column k holding the year and k.
HeaderTexts ==
  { <<"D", "a", "t", "a", " ", "d", "e", " ", "V", "e", "n", "c", "i", "m", "e", "n", "t", "o">>, <<"D", "a", "t", "a", " ", "d", "e", " ", "A", "c", "o", "l", "h", "i", "m", "e", "n", "t", "o">>, <<"V", "a", "l", "o", "r", " ", "P", "r", "i", "n", "c", "i", "p", "a", "l">>,
    <<"V", "a", "l", "o", "r", " ", "T", "o", "t", "a", "l">>, <<"M", "u", "l", "t", "a">>, <<"J", "u", "r", "o", "s">>, <<"T", "o", "t", "a", "l">> }

HeaderRows == UNION { [1..n -> HeaderTexts] : n \in 1..MaxCols }

DataCell(k) == <<"2", "0", "2", "3", "-", ToString(k)>>

MappedPage(hs) ==
  << [cells |-> hs, th |-> TRUE, newTable |-> TRUE],
     [cells |-> [k \in 1..Len(hs) |-> DataCell(k)], th |-> FALSE,
      newTable |-> FALSE] >>

HeaderInit ==
  /\ now = 0
  /\ cache = <<>>
  /\ file = NoFile
  /\ reqs = [r \in Reqs |-> IdleReq]
  /\ timer = [r \in Reqs |-> NoTimer]
  /\ child = [r \in Reqs |-> NoChild]
  /\ resp = [r \in Reqs |-> <<>>]
  /\ nextRun = 1
  /\ lastOp = NoOp
  /\ ops = 0
  /\ EngineOff
  /\ input \in [headers : HeaderRows, year : ScanYears]
  /\ output = <<>>
  /\ NavOff

CallHeaderMapping ==
  /\ output = <<>>
  /\ output' = << extractDebits("sequential", MappedPage(input.headers),
                                input.year) >>
  /\ UNCHANGED <<dispVars, engineVars, input, navVars>>

HeaderNext == CallHeaderMapping

HeaderSpec == HeaderInit /\ [][HeaderNext]_vars

\* ------------------------------------------------- the consult step of a year
\* consultButtonsText of scrape.js, consultTexts of the playwright engines
consultButtonsText ==
  << <<"C", "o", "n", "s", "u", "l", "t", "a", "r">>, <<"P", "e", "s", "q", "u", "i", "s", "a", "r">>, <<"F", "i", "l", "t", "r", "a", "r">>, <<"O", "K">>, <<"O", "k">>, <<"C", "o", "n", "t", "i", "n", "u", "a", "r">>,
     <<"B", "u", "s", "c", "a", "r">>, <<"P", "e", "s", "q", "u", "i", "s", "a", "r", " ", "D", "e'", "b", "i", "t", "o", "s">>, <<"E", "m", "i", "t", "i", "r">>, <<"C", "o", "n", "f", "i", "r", "m", "a", "r">> >>

\* an element of the page: its text, whether it is a span.ladda-label inside
\* a button, and whether a click of the engine on it succeeds
Element(text, ladda, ok) == [text |-> text, ladda |-> ladda, ok |-> ok]

PageElements ==
  { Element(t, FALSE, ok) :
      t \in { <<"C", "o", "n", "s", "u", "l", "t", "a", "r">>, <<"P", "e", "s", "q", "u", "i", "s", "a", "r", " ", "D", "e'", "b", "i", "t", "o", "s">>, <<"O", "k">>, <<"V", "o", "l", "t", "a", "r">> },
      ok \in BOOLEAN }
  \cup { Element(<<"O", "k">>, TRUE, TRUE) }

\* the elements of the page in document order
ConsultPages == UNION { [1..n -> PageElements] : n \in 0..MaxElems }

Click(t, k) == [label |-> t, el |-> k]

Lowest(S) == CHOOSE k \in S : \A j \in S : k <= j

\* scrape.js: the click inside page.evaluate on the first span.ladda-label
\* whose text is 'ok'
clickedLadda(page) ==
  LET S == { k \in 1..Len(page) :
               page[k].ladda /\ Lower(Trim(page[k].text)) = <<"o", "k">> }
  IN  IF S = {} THEN <<>> ELSE << Click(Trim(page[Lowest(S)].text), Lowest(S)) >>

\* scrape.js: `for (const b of btns)`: the first element whose text includes
\* t and whose click does not throw
ClickOfLabel(page, t) ==
  LET S == { k \in 1..Len(page) : Includes(Trim(page[k].text), t) /\ page[k].ok }
  IN  IF S = {} THEN <<>> ELSE << Click(t, Lowest(S)) >>

\* scrape.js: `for (const t of consultButtonsText) { ...; if (consulted)
\* break; }` from label k on, consulted being the flag before the loop
RECURSIVE ScanLabels(_, _, _)
ScanLabels(page, k, consulted) ==
  IF k > Len(consultButtonsText) THEN <<>>
  ELSE LET c == ClickOfLabel(page, consultButtonsText[k])
       IN  IF c # <<>> \/ consulted THEN c ELSE ScanLabels(page, k + 1, FALSE)

\* scrape.js: the XPath attempt, contains(normalize-space(string(.)), t)
XPathClickOfLabel(page, t) ==
  LET S == { k \in 1..Len(page) :
               Includes(Trim(CollapseSpaces(page[k].text)), t) /\ page[k].ok }
  IN  IF S = {} THEN <<>> ELSE << Click(t, Lowest(S)) >>

RECURSIVE ScanXPath(_, _)
ScanXPath(page, k) ==
  IF k > Len(consultButtonsText) THEN <<>>
  ELSE LET c == XPathClickOfLabel(page, consultButtonsText[k])
       IN  IF c # <<>> THEN c ELSE ScanXPath(page, k + 1)

\* the playwright engines: `const btn = await page.$(`text=${t}`); if (btn)
\* { try { await btn.click(); break; } catch (e) {} }`; the text selector
\* matches a part of the text without regard to case
RECURSIVE ScanTexts(_, _)
ScanTexts(page, k) ==
  IF k > Len(consultButtonsText) THEN <<>>
  ELSE LET t == consultButtonsText[k]
           S == { j \in 1..Len(page) : Includes(Lower(page[j].text), Lower(t)) }
       IN  IF S # {} /\ page[Lowest(S)].ok
           THEN << Click(t, Lowest(S)) >>
           ELSE ScanTexts(page, k + 1)

\* the clicks the consult step of engine e issues on the page, in order
consult(e, page) ==
  IF e = "puppeteer"
  THEN LET l == clickedLadda(page)
           s == ScanLabels(page, 1, l # <<>>)
           x == IF l = <<>> /\ s = <<>> THEN ScanXPath(page, 1) ELSE <<>>
       IN  l \o s \o x
  ELSE ScanTexts(page, 1)

ConsultInit ==
  /\ now = 0
  /\ cache = <<>>
  /\ file = NoFile
  /\ reqs = [r \in Reqs |-> IdleReq]
  /\ timer = [r \in Reqs |-> NoTimer]
  /\ child = [r \in Reqs |-> NoChild]
  /\ resp = [r \in Reqs |-> <<>>]
  /\ nextRun = 1
  /\ lastOp = NoOp
  /\ ops = 0
  /\ EngineOff
  /\ input \in [engine : Engines, page : ConsultPages]
  /\ output = [called |-> FALSE, clicks |-> <<>>]
  /\ NavOff

CallConsult ==
  /\ ~output.called
  /\ output' = [called |-> TRUE, clicks |-> consult(input.engine, input.page)]
  /\ UNCHANGED <<dispVars, engineVars, input, navVars>>

ConsultNext == CallConsult

ConsultSpec == ConsultInit /\ [][ConsultNext]_vars

\* ------------------------------------------------------------ findCNPJInput
\* a node of the page: its tag, its attributes ("" for an absent one) and
\* its text; the nodes of a page are siblings in document order
Node(tag, id, name, type, for, text) ==
  [tag |-> tag, id |-> id, name |-> name, type |-> type, for |-> for, text |-> text]

PageNodes ==
  { Node("input", <<"c", "n", "p", "j">>, <<>>, "text", <<>>, <<>>),
    Node("input", <<>>, <<"n", "u", "_", "c", "n", "p", "j">>, "", <<>>, <<>>),
    Node("input", <<>>, <<>>, "text", <<>>, <<>>),
    Node("input", <<>>, <<>>, "", <<>>, <<>>),
    Node("label", <<>>, <<>>, "", <<>>, <<"C", "N", "P", "J", ":">>),
    Node("label", <<>>, <<>>, "", <<"a", "l", "v", "o">>, <<"C", "n", "p", "j">>),
    Node("label", <<>>, <<>>, "", <<"f", "o", "r", "m", ":", "a", "l", "v", "o">>, <<"C", "N", "P", "J">>),
    Node("div", <<"a", "l", "v", "o">>, <<>>, "", <<>>, <<>>) }

FindPages == UNION { [1..n -> PageNodes] : n \in 0..MaxNodes }

\* the candidates of findCNPJInput; placeholder and aria-label are absent
\* from the nodes above, so candidates 5 and 6 match none of them
Candidates == 1..7

SelectorMatches(c, n) ==
  CASE c = 1 -> n.id = <<"c", "n", "p", "j">>
    [] c = 2 -> n.tag = "input" /\ n.name = <<"c", "n", "p", "j">>
    [] c = 3 -> n.tag = "input" /\ Includes(n.name, <<"c", "n", "p", "j">>)
    [] c = 4 -> n.tag = "input" /\ Includes(n.id, <<"c", "n", "p", "j">>)
    [] c = 5 -> FALSE
    [] c = 6 -> FALSE
    [] c = 7 -> n.tag = "input" /\ n.type = "text"

Found(k) == [kind |-> "element", at |-> k]
NotFound == [kind |-> "null", at |-> 0]
FindThrows == [kind |-> "throws", at |-> 0]

\* page.$(sel): the first node of the page the selector matches, or 0
FirstNode(page, P(_)) ==
  LET S == { k \in 1..Len(page) : P(page[k]) }
  IN  IF S = {} THEN 0 ELSE Lowest(S)

\* `#${forAttr}` is a selector only when forAttr is an identifier: a colon
\* or a dot in it starts another part of the selector
ValidIdSelector(v) == \A k \in 1..Len(v) : v[k] \notin {":", ".", " "}

\* the candidates in list order: the first one that has a node
FromCandidates(page) ==
  LET C == { c \in Candidates :
               LET M(n) == SelectorMatches(c, n) IN FirstNode(page, M) # 0 }
  IN  IF C = {} THEN 0
      ELSE LET M(n) == SelectorMatches(Lowest(C), n) IN FirstNode(page, M)

IsCnpjLabel(n) == n.tag = "label" /\ Includes(Lower(Trim(n.text)), <<"c", "n", "p", "j">>)

ForTarget(page, k) ==
  LET T(n) == n.id = page[k].for IN FirstNode(page, T)

\* nextElementSibling until an INPUT
InputSibling(page, k) ==
  LET S == { j \in (k + 1)..Len(page) : page[j].tag = "input" }
  IN  IF S = {} THEN 0 ELSE Lowest(S)

\* the labels from node k on; scrape.js lets a throw of page.$ leave the
\* function, the playwright engines catch it and go to the next label
RECURSIVE FromLabels(_, _, _)
FromLabels(e, page, k) ==
  IF k > Len(page) THEN NotFound
  ELSE IF ~IsCnpjLabel(page[k]) THEN FromLabels(e, page, k + 1)
  ELSE IF page[k].for # <<>> /\ ~ValidIdSelector(page[k].for)
  THEN IF e = "puppeteer" THEN FindThrows ELSE FromLabels(e, page, k + 1)
  ELSE IF page[k].for # <<>> /\ ForTarget(page, k) # 0
  THEN Found(ForTarget(page, k))
  ELSE IF InputSibling(page, k) # 0 THEN Found(InputSibling(page, k))
  ELSE FromLabels(e, page, k + 1)

\* page.$$('input[type="text"], input:not([type])')[0]
FirstTextInput(page) ==
  LET T(n) == n.tag = "input" /\ n.type \in {"text", ""} IN FirstNode(page, T)

findCNPJInput(e, page) ==
  IF FromCandidates(page) # 0 THEN Found(FromCandidates(page))
  ELSE IF FromLabels(e, page, 1) # NotFound THEN FromLabels(e, page, 1)
  ELSE IF FirstTextInput(page) # 0 THEN Found(FirstTextInput(page))
  ELSE NotFound

FindInit ==
  /\ now = 0
  /\ cache = <<>>
  /\ file = NoFile
  /\ reqs = [r \in Reqs |-> IdleReq]
  /\ timer = [r \in Reqs |-> NoTimer]
  /\ child = [r \in Reqs |-> NoChild]
  /\ resp = [r \in Reqs |-> <<>>]
  /\ nextRun = 1
  /\ lastOp = NoOp
  /\ ops = 0
  /\ EngineOff
  /\ input \in [engine : Engines, page : FindPages]
  /\ output = <<>>
  /\ NavOff

\* one resolution of the field on the page; the page does not change
CallFindCNPJInput ==
  /\ Len(output) < MaxFinds
  /\ output' = Append(output, findCNPJInput(input.engine, input.page))
  /\ UNCHANGED <<dispVars, engineVars, input, navVars>>

FindNext == CallFindCNPJInput

FindSpec == FindInit /\ [][FindNext]_vars

\* ------------------------------------------------- claims on the dispatcher
NumDigits(s) == Cardinality({i \in 1..Len(s) : s[i] \in Digits})
Started(r) == reqs[r].pc = "idle" /\ reqs'[r].pc # "idle"

\* C1: every aggregate a request receives, and every aggregate cached under a
\* key, carries the subject identifier of that request / key.
C1_AggregateOfRequestedSubject ==
  /\ \A r \in Reqs : \A i \in 1..Len(resp[r]) :
        resp[r][i].hasResult => resp[r][i].result.cnpj = reqs[r].key[1]
  /\ \A i \in 1..Len(cache) : cache[i].value.cnpj = cache[i].key[1]

\* C2: setToCache is reached only by the exit handler of a run that ended with
\* code 0 and wrote the combined file itself.
C2_CacheOnlyAfterSuccessfulRun ==
  [][\A r \in Reqs :
       (reqs[r].pc = "reading" /\ reqs'[r].pc = "done" /\ cache' # cache)
         => (child[r].code = 0 /\ child[r].wrote)]_vars

\* C3: a request whose run wrote no combined file is answered once, with a
\* payload that has no result and whose success is not true.
C3_NoOutputMeansFailurePayload ==
  \A r \in Reqs :
    (reqs[r].pc = "done" /\ child[r].exitSeen /\ ~child[r].wrote)
      => /\ Len(resp[r]) = 1
         /\ ~resp[r][1].hasResult
         /\ resp[r][1].success # "true"

\* C4: a request with fewer than 11 digits (or no identifier) is answered 400,
\* spawns nothing, arms no timer and leaves the cache as it was.
C4_InvalidIdentifierRejected ==
  [][\A r \in Reqs :
       (Started(r) /\ NumDigits(reqs'[r].cnpj) < 11)
         => /\ reqs'[r].pc = "done"
            /\ resp'[r] = <<Response(400, "absent", FALSE, FALSE, NoAgg)>>
            /\ cache' = cache
            /\ child' = child /\ timer' = timer /\ nextRun' = nextRun]_vars

C4_Witness ==
  \E r \in Reqs :
    /\ reqs[r].pc = "done"
    /\ NumDigits(reqs[r].cnpj) \in 1..10
    /\ resp[r] = <<Response(400, "absent", FALSE, FALSE, NoAgg)>>
    /\ cache # <<>>

\* C5: a request whose key has an unexpired entry is answered with the value
\* of that entry, marked cached, and spawns nothing.
C5_CacheHitServedWithoutSpawn ==
  [][\A r \in Reqs : \A i \in 1..Len(cache) :
       (Started(r) /\ cache[i].key = reqs'[r].key /\ now - cache[i].ts <= CACHE_TTL)
         => /\ reqs'[r].pc = "done"
            /\ resp'[r] = <<Response(200, "absent", TRUE, TRUE, cache[i].value)>>
            /\ child' = child /\ timer' = timer /\ nextRun' = nextRun]_vars

C5_Witness ==
  \E r \in Reqs :
    /\ reqs[r].pc = "done"
    /\ Len(resp[r]) = 1
    /\ resp[r][1].cached
    /\ resp[r][1].result # NoAgg
    /\ child[r] = NoChild

\* C9: a subprocess still running when its 3 minutes are over is sent SIGTERM;
\* SIGTERM is sent only by the timer, at or after the deadline and before
\* exit or error was observed; once one of them was observed the timer is no
\* longer armed; a request whose subprocess exited gets its response.
C9_TimeoutKillAndResponse ==
  /\ \A r \in Reqs :
        (Alive(r) /\ timer[r].st = "armed" /\ now >= timer[r].deadline)
          ~> (child[r].sig \/ ~Alive(r))
  /\ [][\A r \in Reqs :
          (child'[r].sig /\ ~child[r].sig)
            => (reqs[r].pc = "spawned" /\ timer[r].st = "armed"
                /\ now >= reqs[r].at + KILL_TIMEOUT)]_vars
  /\ [](\A r \in Reqs : reqs[r].pc \in {"reading", "done"} => timer[r].st # "armed")
  /\ \A r \in Reqs :
        (reqs[r].pc = "spawned" /\ child[r].st = "exited")
          ~> (reqs[r].pc = "done" /\ Len(resp[r]) = 1)

C9_Witness ==
  \E r \in Reqs :
    /\ timer[r].st = "fired"
    /\ child[r].sig
    /\ child[r].code = CodeNull
    /\ reqs[r].pc = "done"
    /\ Len(resp[r]) = 1

\* ------------------------------------------------------ claims on the cache
Called(op) == ops' = ops + 1 /\ lastOp'.op = op
Without(c, i) == [j \in 1..(Len(c) - 1) |-> IF j < i THEN c[j] ELSE c[j + 1]]

\* C6: a lookup returns a value only from an entry stored at most CACHE_TTL
\* ago; the lookup of an older entry returns null and deletes the entry.
C6_NoValueOlderThanTTL ==
  [][Called("get") =>
       LET i == lastOp'.pos
       IN /\ lastOp'.hit => (i # 0 /\ now - cache[i].ts <= CACHE_TTL
                                   /\ lastOp'.value = cache[i].value)
          /\ (i # 0 /\ now - cache[i].ts > CACHE_TTL)
               => (~lastOp'.hit /\ cache' = Without(cache, i))]_vars

C6_Witness ==
  /\ lastOp.op = "get"
  /\ lastOp.pos # 0
  /\ ~lastOp.hit
  /\ Len(cache) = lastOp.len - 1

\* C7: the Map never holds more than CACHE_MAX entries, and storing a new key
\* into a full Map removes the first entry in insertion order.
C7_CapacityAndOldestFirstEviction ==
  /\ [](Len(cache) <= CACHE_MAX)
  /\ [][(Called("set") /\ lastOp'.pos = 0 /\ Len(cache) >= CACHE_MAX)
          => cache' = Append(Tail(cache),
                             [key |-> lastOp'.key, ts |-> now, value |-> lastOp'.value])]_vars

C7_Witness ==
  /\ lastOp.op = "set"
  /\ lastOp.pos = 0
  /\ lastOp.len = CACHE_MAX
  /\ Len(cache) = CACHE_MAX
  /\ cache[1].key # FillerKey(1)

\* C8: a hit moves the entry behind all others and changes neither its
\* timestamp nor its value; the other entries keep their order.
C8_HitReordersWithoutRefresh ==
  [][(Called("get") /\ lastOp'.hit)
       => cache' = Append(Without(cache, lastOp'.pos), cache[lastOp'.pos])]_vars

C8_Witness ==
  /\ lastOp.op = "get"
  /\ lastOp.hit
  /\ lastOp.pos \in 1..(lastOp.len - 1)
  /\ cache[Len(cache)].key = lastOp.key
  /\ cache[Len(cache)].ts < now

\* --------------------------------------------------- claims on the engines
\* every eligible year was extracted and the run is past the year branch
YearsDone ==
  /\ epc \in {"name", "final", "done"}
  /\ Len(years) > 0
  /\ DOMAIN found = 1..Len(years)

\* C10: after a run over N eligible years the combined result has exactly N
\* YearResult entries, one per eligible year in the order of the eligible-year
\* list, a year that yielded zero records having an entry with an empty
\* record sequence.
C10_OneYearResultPerEligibleYear ==
  YearsDone =>
    /\ outAll # <<>>
    /\ Len(outAll[1].years) = Len(years)
    /\ \A i \in 1..Len(years) : outAll[1].years[i] = YearResult(years[i], found[i])

\* the step that writes the combined file after the year branch
AggregateWritten ==
  /\ epc \in {"years", "map"}
  /\ Len(years) > 0
  /\ outAll' # outAll

\* C11: in both execution strategies the per-year file of every eligible
\* year, a year with zero records included, is written, and it is written
\* before the combined file is: when the combined file is written, the file
\* of every eligible year is already there.
C11_YearFilesBeforeAggregate ==
  [][AggregateWritten => \A i \in 1..Len(years) : years[i] \in DOMAIN yearFiles]_vars

\* C12: at the end of a run every per-year file debitos_<Y>.json holds in
\* items exactly the DebitRecords extracted for year Y in that run, never a
\* list of YearResults or the records of another year, also when Y is the
\* --year argument (or its default) of the run.
C12_YearFileHoldsRecordsOfItsYear ==
  epc = "done" =>
    \A y \in DOMAIN yearFiles :
      /\ yearFiles[y].year = y
      /\ \A k \in 1..Len(yearFiles[y].items) :
           yearFiles[y].items[k] = [year |-> y, row |-> k]
      /\ IF Len(years) > 0
         THEN \E i \in DOMAIN found : years[i] = y /\ yearFiles[y].items = found[i]
         ELSE y = YEAR /\ yearFiles[y].items = debitos

\* C13: whenever the combined file is written, its years field is a sequence
\* of YearResult objects, each with a year and an items sequence, on every
\* path, the path where no year option was enumerated included.
C13_AggregateYearsAreYearResults ==
  [][outAll' # outAll =>
       \A i \in 1..Len(outAll'[1].years) :
         DOMAIN outAll'[1].years[i] = {"year", "items"}]_vars

\* C14: no failure inside the per-year sub-cycle aborts the run: a run with
\* eligible years never dies in the year branch, and it leaves that branch
\* only after every eligible year was processed and with the combined file
\* of this run written.
C14_YearFailureNeverAbortsRun ==
  Len(years) > 0 =>
    /\ epc # "crashed"
    /\ epc \in {"name", "final", "done"} =>
         /\ idx = Len(years)
         /\ outAll # <<>>
         /\ outAll[1].cnpj = digits
         /\ Len(outAll[1].years) = Len(all)

\* ------------------------------------------------ claims on safeExtractDebits
\* the messages that report an invalidated execution context
ContextLossMessages == {MsgDestroyed, MsgContext}
\* the k-th invocation of extractDebits fails with such a message
FailsWithContextLoss(k) ==
  /\ ~input.script[k].ok
  /\ input.script[k].msg \in ContextLossMessages
SafeCalled == output # NotCalled

\* C15: safeExtractDebits with tries = 3 whose extraction fails twice with a
\* context-invalidation message and then succeeds returns the result of the
\* third attempt, having invoked the extraction exactly three times.
C15_ThirdAttemptResultReturned ==
  (/\ SafeCalled
   /\ input.tries = 3
   /\ FailsWithContextLoss(1)
   /\ FailsWithContextLoss(2)
   /\ input.script[3].ok)
  => /\ output.kind = "return"
     /\ output.rows = input.script[3].rows
     /\ output.calls = 3

C15_Witness ==
  /\ SafeCalled
  /\ input.tries = 3
  /\ FailsWithContextLoss(1)
  /\ FailsWithContextLoss(2)
  /\ input.script[1].msg # input.script[2].msg
  /\ input.script[3].ok
  /\ input.script[3].rows = MaxRecs
  /\ output.rows = MaxRecs

\* C16: an extraction error whose message does not report an invalidated
\* execution context is re-thrown on the attempt where it occurs: no wait and
\* no further attempt follow it, whatever attempts remain.
C16_OtherErrorRethrownAtOnce ==
  SafeCalled =>
    \A k \in 1..Min(input.tries, MaxTries) :
      (/\ \A j \in 1..(k - 1) : FailsWithContextLoss(j)
       /\ ~input.script[k].ok
       /\ input.script[k].msg \notin ContextLossMessages)
      => /\ output.kind = "throw"
         /\ output.msg = input.script[k].msg
         /\ output.calls = k
         /\ output.waits = k - 1

C16_Witness ==
  /\ SafeCalled
  /\ input.tries = 3
  /\ FailsWithContextLoss(1)
  /\ input.script[2] = ThrowsMsg(MsgOther)
  /\ input.script[3].ok
  /\ output.kind = "throw"
  /\ output.calls = 2

\* C17: safeExtractDebits(page, year, tries) invokes the extraction at most
\* tries times, and when every one of the tries attempts fails with a
\* context-invalidation message it returns an empty sequence and does not
\* raise.
C17_BoundedAttemptsThenEmpty ==
  SafeCalled =>
    /\ output.calls <= input.tries
    /\ (\A k \in 1..Min(input.tries, MaxTries) : FailsWithContextLoss(k))
       => /\ output.kind = "return"
          /\ output.rows = 0
          /\ output.calls = input.tries

C17_Witness ==
  /\ SafeCalled
  /\ input.tries = 3
  /\ \A k \in 1..3 : FailsWithContextLoss(k)
  /\ input.script[3].msg = MsgContext
  /\ output.kind = "return"
  /\ output.calls = 3

\* ------------------------------------------------------ claims on parallelMap
RECURSIVE SumTo(_, _)
SumTo(f, n) == IF n = 0 THEN 0 ELSE f[n] + SumTo(f, n - 1)
\* fn invocations started and not yet settled
InFlight == SumTo(calls, Len(years)) - Cardinality(DOMAIN ret)

\* C18: at every moment of parallelMap(arr, limit, fn) the number of fn
\* invocations that have started and not yet settled is at most limit, and
\* limit is at most 3.
C18_AtMostLimitInFlight ==
  epc = "map" => (InFlight <= limit /\ limit <= 3)

C18_Witness ==
  /\ epc = "map"
  /\ limit < Len(years)
  /\ DOMAIN ret # {}
  /\ InFlight = limit

\* C19: when every fn call settles successfully parallelMap calls fn exactly
\* once for every element, under every interleaving of the completions, and
\* resolves only after all calls completed, with position i of the result
\* holding the result of fn(arr[i]); while an element is unclaimed every
\* worker is busy, a worker that finished taking the next unclaimed element.
C19_EachElementOnceResultsInPlace ==
  /\ [](epc = "map" => \A i \in 1..Len(years) : calls[i] <= 1)
  /\ []((epc = "map" /\ \E i \in 1..Len(years) : calls[i] = 0)
          => InFlight = Min(limit, Len(years)))
  /\ [][(epc = "map" /\ epc' = "name") =>
          /\ \A i \in 1..Len(years) : calls[i] = 1
          /\ DOMAIN ret = 1..Len(years)
          /\ \A i \in 1..Len(years) : ret[i] = YearResult(years[i], found[i])
          /\ all' = ret]_vars

C19_Witness ==
  /\ epc = "name"
  /\ limit < Len(years)
  /\ Len(all) = Len(years)
  /\ Len(years) = MaxYears
  /\ all[1].items # all[MaxYears].items

\* ------------------------------------- claims on the normalization functions
IsDigit(c) == c \in Digits
\* the input with every character that is not a digit removed
DigitsOf(x) == IF x \in {Undefined, Null} THEN <<>> ELSE SelectSeq(x, IsDigit)

\* C20: each identifier normalization function (sanitizeCNPJ, normalizeCNPJ)
\* returns its input with every non-digit character removed and is idempotent,
\* for every input, the empty string, inputs without a digit and
\* null/undefined included.
C20_NormalizationStripsAndIsIdempotent ==
  output.fn # "none" =>
    /\ output.once = DigitsOf(input)
    /\ output.twice = output.once

\* ------------------------------------------------ claims on getAvailableYears
\* the option carries the not-enrolled marker in its label or a disabled marker
Marked(o) == o.text \in {Txt2022Nao, Txt2021Nao} \/ o.disabled
EligibleTexts == {output.years[k].text : k \in 1..Len(output.years)}

\* C21: getAvailableYears excludes from the eligible set every option whose
\* label contains the not-enrolled marker or that carries a disabled marker,
\* and includes an unmarked option labelled "2023", for a native select
\* control and for the element-scan fallback alike.
C21_MarkedOptionsExcluded ==
  output.called =>
    \A k \in 1..Len(input.menu) :
      /\ Marked(input.menu[k]) => input.menu[k].text \notin EligibleTexts
      /\ input.menu[k] = Option(Txt2023, Txt2023, FALSE) => Txt2023 \in EligibleTexts


\* ------------------------------------------------ claims on extractDebits
\* the records of every invocation made so far
ExtractedRecords ==
  UNION { Range(output[n].records) : n \in 1..Len(output) }

LooseEngines == {"puppeteer", "parallel"}

\* a token with a comma followed by two digits
HasCommaFraction(p) ==
  \E i \in 1..(Len(p) - 2) :
    p[i] = "," /\ p[i + 1] \in Digits /\ p[i + 2] \in Digits

\* the last token of the row that has a comma-delimited fraction
AmountToken(parts) ==
  parts[CHOOSE k \in 1..Len(parts) :
          /\ HasCommaFraction(parts[k])
          /\ \A j \in (k + 1)..Len(parts) : ~HasCommaFraction(parts[j])]

\* C22: in the loose row scan of scrape.js and of server.js the amount token
\* "R$ 1.234,56" gives the amount 1234.56 and "56,00" gives 56.00, and a
\* record of a row none of whose tokens has a comma-delimited two-digit
\* fraction (as "1.234" or "12.50") has the amount null.
C22_LooseScanAmounts ==
  input.e \in LooseEngines =>
    \A rec \in ExtractedRecords :
      rec.shape = "loose" =>
        IF \E k \in 1..Len(rec.parts) : HasCommaFraction(rec.parts[k])
        THEN /\ AmountToken(rec.parts) = <<"R", "$", " ", "1", ".", "2", "3", "4", ",", "5", "6">>
                  => rec.amount = Num(123456, 2)
             /\ AmountToken(rec.parts) = <<"5", "6", ",", "0", "0">>
                  => rec.amount = Num(56, 0)
        ELSE rec.amount = NullAmount


\* the tables of the page with the outcome of each, for invocation n
TableOutcomes(n) ==
  { [table |-> TablesOf(input.page)[i], outcome |-> output[n].tables[i]] :
      i \in 1..Len(output[n].tables) }

\* the column of the first row whose header text is h, or 0
HeaderColumn(t, h) ==
  IF \E k \in 1..Len(t[1].cells) : normalizeHeader(t[1].cells[k]) = h
  THEN CHOOSE k \in 1..Len(t[1].cells) : normalizeHeader(t[1].cells[k]) = h
  ELSE 0

KeyTotal == <<"t", "o", "t", "a", "l">>
KeyDueDate == <<"d", "a", "t", "a", " ", "d", "e", " ", "v", "e", "n", "c", "i", "m", "e", "n", "t", "o">>

\* no cell of the table is a header of a vocabulary
NoRecognizableHeader(t) ==
  \A i \in 1..Len(t) : \A k \in 1..Len(t[i].cells) :
    normalizeHeader(t[i].cells[k])
      \notin Range(expectedHeaders) \cup Range(expectedHeadersPw)

\* the record stores the cell of column col of row r under the key
StoresColumn(rec, key, r, col) ==
  /\ rec.shape \in {"mapped", "table"}
  /\ key \in DOMAIN rec.obj
  /\ rec.obj[key] = CellValue(r.cells, col)

\* C23: in a table whose first row holds the headers "Total" and "Data de
\* Vencimento", and is its only row of th cells, the record of every later
\* row stores the cells of those two columns under the keys `total` and
\* `data de vencimento`; every record of a table with no recognizable header
\* has the raw/parts/amount shape.
C23_HeaderMappingAndFallbackShape ==
  \A n \in 1..Len(output) : \A to \in TableOutcomes(n) :
    LET t == to.table
    IN  /\ (/\ HeaderColumn(t, KeyTotal) > 0
            /\ HeaderColumn(t, KeyDueDate) > 0
            /\ \A j \in 2..Len(t) : ~t[j].th)
           => \A j \in 2..Len(t) : \A rec \in Range(to.outcome.recs[j]) :
                /\ StoresColumn(rec, KeyTotal, t[j],
                                HeaderColumn(t, KeyTotal))
                /\ StoresColumn(rec, KeyDueDate, t[j],
                                HeaderColumn(t, KeyDueDate))
        /\ NoRecognizableHeader(t)
           => \A j \in 1..Len(t) : \A rec \in Range(to.outcome.recs[j]) :
                rec.shape = "loose"
HasCurrency(text) == CurrencyCommas(text, 0) # {}

\* C29: within one extraction every table whose text holds a currency-shaped
\* substring is accepted, and every row of an accepted table without header
\* whose text holds a currency-shaped substring gives a record, whatever
\* was tested before it.
C29_AcceptanceDependsOnOwnText ==
  \A n \in 1..Len(output) : \A to \in TableOutcomes(n) :
    /\ HasCurrency(TableInnerText(to.table)) => to.outcome.accepted
    /\ (to.outcome.accepted /\ ~to.outcome.mapped)
       => \A j \in 1..Len(to.table) :
            HasCurrency(RowInnerText(to.table[j]))
              => to.outcome.recs[j] # <<>>

\* ------------------------------------------- claims on the late name
\* C26: when the late name lookup yields a name and the combined file is
\* rewritten, the rewritten file is the file as it was with only companyName
\* replaced: the identifier and the list of years with every YearResult are
\* the same.
C26_LateNameReplacesOnlyName ==
  [][(epc = "name" /\ outAll' # outAll)
       => /\ outAll # <<>>
          /\ outAll' = <<[outAll[1] EXCEPT !.companyName = outAll'[1].companyName]>>
          /\ outAll'[1].cnpj = outAll[1].cnpj
          /\ outAll'[1].years = outAll[1].years]_vars

\* a run of scrape_playwright.js with eligible years whose combined file
\* carries the name found late, the name found early being none
C26_Witness ==
  /\ engine = "sequential"
  /\ epc = "done"
  /\ Len(years) > 0
  /\ companyName = NoName
  /\ outAll # <<>>
  /\ outAll[1].companyName \in Names
  /\ outAll[1].years = all
  /\ \E i \in 1..Len(all) : all[i].items # <<>>

\* -------------------------------------------- claims on the handlers
\* C28: for the same cnpj, year, month, noHeadless and engine the GET handler
\* and the POST handler compute the same key, take the same cached or spawn
\* decision, pass the same argument list to the engine and respond alike.
C28_GetAndPostEquivalent ==
  output # <<>> => output["GET"] = output["POST"]

\* ------------------------------------------------------ claims on the run
\* C25: when the identifier argument is missing, or findCNPJInput returns
\* null on the entry page, the run has printed a message and exited with
\* status 1, and it wrote no file of a year and no combined file.
C25_FailedStartExitsWithoutFiles ==
  ((epc # "args" /\ CNPJ = <<>>) \/ cnpjEl = "null") =>
    /\ epc = "exited"
    /\ exitCode = 1
    /\ printed # <<>>
    /\ yearFiles = <<>>
    /\ outAll \in EarlierCombined
    /\ ~Has(steps, "writeAll")

\* the field was not found on the entry page of a directory that holds the
\* combined file of an earlier run
C25_Witness ==
  /\ cnpjEl = "null"
  /\ epc = "exited"
  /\ printed = <<"notFound">>
  /\ outAll # <<>>

\* C27: under the scheduling of the event loop every run of an engine ends:
\* the process exits, the browser is closed, or an unhandled rejection ends
\* the process.
Terminated == epc \in {"exited", "closed", "crashed"}

Before(q, a, b) ==
  \A k \in 1..Len(q) : q[k] = b => \E j \in 1..(k - 1) : q[j] = a

C34_ExactlyOneResponse ==
  \A r \in Reqs :
    /\ reqs[r].pc # "threw"
    /\ Len(resp[r]) <= 1
    /\ reqs[r].pc = "done" => Len(resp[r]) = 1

\* ------------------------------------------- claims on stores to the cache
\* C35: a store removes an entry of another key only when its own key is not
\* in the Map and the Map is full; a store under a key that is in the Map
\* removes nothing.
C35_StoreRemovesOnlyForNewKey ==
  [][Called("set") =>
       \A i \in 1..Len(cache) :
         (cache[i].key # lastOp'.key /\ KeyIndex(cache', cache[i].key) = 0)
           => (lastOp'.pos = 0 /\ Len(cache) >= CACHE_MAX)]_vars

\* ------------------------------------------ claims on settled parallelMap
\* C36: once parallelMap has settled, resolved or rejected, no worker awaits
\* a call of fn and no element is claimed any more.
C36_NothingInFlightWhenSettled ==
  /\ [](epc \in {"name", "crashed"} => \A w \in DOMAIN workers : workers[w] = 0)
  /\ [][(epc \in {"name", "crashed"}) => (idx' = idx)]_vars

\* ------------------------------------------- claims on the list of years
\* C37: no two entries of the list getAvailableYears returns have the same
\* year value.
C37_NoDuplicateYears ==
  output.called =>
    \A j, k \in 1..Len(output.years) :
      j # k => output.years[j].value # output.years[k].value

\* ------------------------------------------- claims on the header mapping
\* C38: when the headers of the columns are distinct texts, the record of a
\* row holds the value of every column: no column is stored under the key of
\* another one.
C38_DistinctHeadersDistinctKeys ==
  output # <<>> =>
    LET hs == MapSeq(normalizeHeader, input.headers)
    IN  (\A j, k \in 1..Len(hs) : j # k => hs[j] # hs[k]) =>
          /\ Len(output[1].records) = 1
          /\ \A k \in 1..Len(hs) :
               \E key \in DOMAIN output[1].records[1].obj :
                 output[1].records[1].obj[key] = DataCell(k)

\* C32: a step of the engine at the poll either stays at the poll, while the
\* interstitial is present and the bound has not elapsed, or goes on to the
\* resolution of the identifier field, when the interstitial is gone (or a
\* table or the inline list is there) or the bound elapsed; the poll is
\* entered only when the interstitial was detected, and the time spent in it
\* stays below the bound plus one sleep.
C32_PollThenResolveField ==
  /\ [][(epc = "poll" /\ hcaptcha' = hcaptcha) =>
          (\/ /\ epc' = "poll"
              /\ hcaptcha = "present" /\ elapsed < maxWait(engine)
           \/ /\ epc' = "input"
              /\ (hcaptcha = "gone" \/ elapsed >= maxWait(engine)))]_vars
  /\ [][(epc = "captcha") =>
          (epc' = (IF hcaptcha = "present" THEN "poll" ELSE "input"))]_vars
  /\ [](epc = "poll" => elapsed < maxWait(engine) + POLL_SLEEP)

C32_Witness ==
  /\ hcaptcha = "present"
  /\ epc = "fill"
  /\ cnpjEl # "null"

\* C39: whenever a run writes the combined file, the file it leaves carries
\* the identifier of that run: the display name of a run is never put into a
\* combined file that an earlier run produced for another identifier.
C39_NameAndIdentifierOfOneSubject ==
  [][(outAll' # outAll) => (outAll'[1].cnpj = digits)]_vars

\* ------------------------------------------------ claims on the consult step
\* a label matches an element as the engine matches it
LabelMatches(e, el, t) ==
  IF e = "puppeteer" THEN Includes(Trim(el.text), t)
  ELSE Includes(Lower(el.text), Lower(t))

\* the labels of the list that have a matching element whose click succeeds
ClickableLabels ==
  { k \in 1..Len(consultButtonsText) :
      \E j \in 1..Len(input.page) :
        LabelMatches(input.engine, input.page[j], consultButtonsText[k])
        /\ input.page[j].ok }

\* C31: at most one consult click is issued for a year.
C31_OneConsultClick ==
  output.called => Len(output.clicks) <= 1

\* C31: the click is the one for the first label of the list that has a
\* matching element whose click succeeds, and there is none when no label has.
C31_FirstLabelClicked ==
  output.called =>
    IF ClickableLabels = {} THEN output.clicks = <<>>
    ELSE /\ output.clicks # <<>>
         /\ output.clicks[1].label = consultButtonsText[Lowest(ClickableLabels)]

\* C31: for each year the consult click is the one for the first label of the
\* priority list that has a matching element whose click succeeds, and after
\* one click succeeded no further consult click is issued for the year.
C31_FirstLabelClickedOnce ==
  C31_FirstLabelClicked /\ C31_OneConsultClick

\* -------------------------------------------------- claims on findCNPJInput
\* the label association of the page: the first label of the identifier, in
\* document order, that has a `for` target or a following input sibling
RECURSIVE LabelAssociation(_, _)
LabelAssociation(page, k) ==
  IF k > Len(page) THEN 0
  ELSE IF IsCnpjLabel(page[k]) /\ page[k].for # <<>> /\ ForTarget(page, k) # 0
  THEN ForTarget(page, k)
  ELSE IF IsCnpjLabel(page[k]) /\ InputSibling(page, k) # 0
  THEN InputSibling(page, k)
  ELSE LabelAssociation(page, k + 1)

\* the element of the earliest strategy that matches
EarliestStrategy(page) ==
  IF FromCandidates(page) # 0 THEN Found(FromCandidates(page))
  ELSE IF LabelAssociation(page, 1) # 0 THEN Found(LabelAssociation(page, 1))
  ELSE IF FirstTextInput(page) # 0 THEN Found(FirstTextInput(page))
  ELSE NotFound

\* C33: every resolution returns the element of the earliest strategy that
\* matches (the candidates in list order, then the label association, then
\* the first text input), not-found only when no strategy matches, and the
\* resolutions on the unchanged page return the same element.
C33_EarliestStrategyMatches ==
  \A k \in 1..Len(output) : output[k] = EarliestStrategy(input.page)

====
